---- MODULE Spec2Model ----
(***************************************************************************)
(* A model of the Coda TypeScript SDK's request execution core:            *)
(*   - CodaClient's constructor, request, handleResponse and               *)
(*     waitForMutation                     (src/src/client/codaClient.ts)  *)
(*   - the paginateAll generator           (src/unnamed/part_006)          *)
(* Time is in milliseconds, as Date.now() and setTimeout count it.         *)
(***************************************************************************)
EXTENDS Bags, Integers, Sequences, FiniteSets, TLC

\* ------------------------------------------------------------------ bounds

\* largest cfg.retries the constructor is given
MaxRetries == 2
\* logical calls made through one client
MaxCalls == 2
\* pages the fetcher of paginateAll serves before it serves a last page
MaxPages == 3
\* items on one page
MaxItems == 2

\* pages of rows a listing is served in
MaxRowPages == 2

\* rows on a page of a listing
MaxRows == 2

\* the largest match limit findRows is given
MaxLimit == 2

\* records insertRowsBatch is given
MaxRecords == 3

\* the largest chunk size insertRowsBatch is given
MaxBatchSize == 2

\* read calls of the opening burst beyond the read limit
MaxOverRead == 1

\* write calls of the opening burst beyond the write limit
MaxOverWrite == 11

\* waitForSlot calls made outside the opening burst
MaxProbes == 2

\* clock advances of a limiter's run
MaxTicks == 2

\* operations made on a cache
MaxCacheOps == 3

\* clock advances of a cache's run
MaxCacheTicks == 2

\* recordRequest calls made past the capacity of the response-time history
MaxOverHistory == 2

\* cache-served records, rate-limit records, resets and clock advances of a
\* collector's run
MaxMetricSteps == 2

\* characters of a token that vary freely, ahead of a run of one character
MaxTokenHead == 2

\* row ids, or rows, handed to one call of a row-writing method
MaxWireItems == 2

\* upsertRow calls running at once on one table
MaxCallers == 2

\* ------------------------------------------------------- program constants

DefaultRetries == 3
BackoffUnit == 1000
DefaultMaxWaitTime == 30000
DefaultPollInterval == 1000
TimeoutStatus == 408
RateLimitStatus == 429
DefaultBatchSize == 100
Window == 6000
ReadLimit == 100
WriteLimit == 10

\* ------------------------------------------------------------------ values

\* parseInt's NaN (no number is negative in this model)
NaN == 0 - 1

RECURSIVE Pow2(_)
\* Math.pow(2, n)
Pow2(n) == IF n = 0 THEN 1 ELSE 2 * Pow2(n - 1)

DigitChars == <<"0", "1", "2", "3", "4", "5", "6", "7", "8", "9">>

IsDigit(c) == \E d \in 1..10 : DigitChars[d] = c

DigitValue(c) == (CHOOSE d \in 1..10 : DigitChars[d] = c) - 1

RECURSIVE ParseIntFrom(_, _, _)
\* parseInt over a string of characters: the longest prefix of digits, NaN
\* when there is none
ParseIntFrom(s, i, acc) ==
    IF i > Len(s) \/ ~IsDigit(s[i])
    THEN (IF i = 1 THEN NaN ELSE acc)
    ELSE ParseIntFrom(s, i + 1, 10 * acc + DigitValue(s[i]))

ParseInt(s) == ParseIntFrom(s, 1, 0)

\* a header that response.headers.get() does not find (null); as a string it
\* is the empty one, and both are falsy
AbsentHeader == << >>

DefaultRetryAfterText == <<"6", "0">>

\* response.headers.get('retry-after') || '60'
RetryAfterText(header) == IF header = AbsentHeader THEN DefaultRetryAfterText ELSE header

\* the retry-after headers a 429 response may carry
RetryAfterHeaders == {AbsentHeader, <<"3", "0">>, <<"x">>}

\* JSON bodies: an opaque payload, with the status and error fields of a
\* CodaMutationStatus ("" where the body has none)
Body(data, status, error) == [data |-> data, status |-> status, error |-> error]

NoBody == Body("", "", "")

PayloadBodies == {Body("v1", "", ""), Body("v2", "", "")}

StatusBodies ==
    {Body("req", "inProgress", ""), Body("req", "complete", ""),
     Body("req", "failed", "Validation error")}

\* response.text() of a body that is not JSON: a string, with no fields
TextOf(body) == Body("text", "", "")

\* ------------------------------------------------------------------ errors

Err(type, statusCode, retryAfter, message) ==
    [type |-> type, statusCode |-> statusCode, retryAfter |-> retryAfter,
     message |-> message]

NoError == Err("none", 0, 0, "")

\* new CodaApiError(message, statusCode)
CodaApiError(message, statusCode) == Err("CodaApiError", statusCode, 0, message)

\* new CodaRateLimitError(retryAfter): super('Rate limit exceeded', 429)
CodaRateLimitError(retryAfter) ==
    Err("CodaRateLimitError", RateLimitStatus, retryAfter, "Rate limit exceeded")

\* what fetch rejects with: not a CodaApiError, no statusCode
NetworkError == Err("FetchError", 0, 0, "Network error")

\* what response.json() rejects with on a body that is not JSON
JsonParseError == Err("SyntaxError", 0, 0, "Invalid JSON")

\* error instanceof CodaApiError (CodaRateLimitError extends CodaApiError)
IsCodaApiError(e) == e.type \in {"CodaApiError", "CodaRateLimitError"}

Return(value) == [kind |-> "return", value |-> value, error |-> NoError, via |-> "own"]

Throw(error) == [kind |-> "throw", value |-> NoBody, error |-> error, via |-> "own"]

Propagate(outcome) == [outcome EXCEPT !.via = "callee"]

NoOutcome == [kind |-> "none", value |-> NoBody, error |-> NoError, via |-> "own"]

\* --------------------------------------------------------------- transport

\* what fetch resolves with (kind "response") or that it rejects (kind "reject")
Response(status, header, isJson, parseOk, message, body) ==
    [kind |-> "response", status |-> status, retryAfter |-> header,
     isJson |-> isJson, parseOk |-> parseOk, message |-> message, body |-> body]

Rejection ==
    [kind |-> "reject", status |-> 0, retryAfter |-> AbsentHeader,
     isJson |-> FALSE, parseOk |-> FALSE, message |-> "", body |-> NoBody]

ErrorStatuses == {400, 401, 403, 404, 422, 500}

SuccessResponses(bodies) ==
    {Response(200, AbsentHeader, TRUE, TRUE, "", b) : b \in bodies}
    \cup {Response(200, AbsentHeader, FALSE, FALSE, "", b) : b \in bodies}
    \cup {Response(200, AbsentHeader, TRUE, FALSE, "", NoBody)}

RateLimitResponses ==
    {Response(RateLimitStatus, h, TRUE, TRUE, "Rate limit exceeded", NoBody) :
        h \in RetryAfterHeaders}

\* an error response: a JSON body with the server's message, one without a
\* message, one that does not parse, or no JSON body at all
ErrorResponses ==
    {Response(s, AbsentHeader, TRUE, TRUE, "server message", NoBody) : s \in ErrorStatuses}
    \cup {Response(500, AbsentHeader, TRUE, TRUE, "", NoBody),
          Response(502, AbsentHeader, TRUE, FALSE, "", NoBody),
          Response(401, AbsentHeader, FALSE, FALSE, "", NoBody)}

Responses(bodies) ==
    SuccessResponses(bodies) \cup RateLimitResponses \cup ErrorResponses \cup {Rejection}

\* response.ok
ResponseOk(status) == status >= 200 /\ status <= 299

\* `Erreur HTTP ${response.status}: ${response.statusText}`
GenericMessage(status) == "Erreur HTTP"

\* handleResponse letting the parse failure of an error body through
HandleResponse_parseFailureThrown(r) ==
    IF r.status = RateLimitStatus
    THEN Throw(CodaRateLimitError(ParseInt(RetryAfterText(r.retryAfter))))
    ELSE IF r.isJson /\ ~r.parseOk
    THEN Throw(JsonParseError)
    ELSE IF ~ResponseOk(r.status)
    THEN Throw(CodaApiError(IF r.isJson /\ r.message # "" THEN r.message
                            ELSE GenericMessage(r.status), r.status))
    ELSE IF r.isJson THEN Return(r.body) ELSE Return(TextOf(r.body))

\* CodaClient.handleResponse
HandleResponse(r) ==
    IF r.status = RateLimitStatus
    THEN Throw(CodaRateLimitError(ParseInt(RetryAfterText(r.retryAfter))))
    ELSE IF ~ResponseOk(r.status)
    THEN LET errorMessage == IF r.isJson /\ r.parseOk THEN r.message ELSE ""
         IN  Throw(CodaApiError(IF errorMessage # "" THEN errorMessage
                                ELSE GenericMessage(r.status), r.status))
    ELSE IF r.isJson
    THEN (IF r.parseOk THEN Return(r.body) ELSE Throw(JsonParseError))
    ELSE Return(TextOf(r.body))

\* await fetch(...); return await this.handleResponse(response)
Attempt(r) == IF r.kind = "reject" THEN Throw(NetworkError) ELSE HandleResponse(r)

\* ------------------------------------------------------------------- state

VARIABLES
    cfg,          \* the configuration the constructor was given
    retries,      \* this.retries
    rlRequests,   \* this.rateLimiter.requests (when a limiter was constructed)
    cacheStore,   \* this.cache.cache: key -> entry (when a cache was constructed)
    cacheHits,    \* this.cache.hits
    cacheMisses,  \* this.cache.misses
    metrics,      \* this.metrics.metrics (when a collector was constructed)
    now,          \* Date.now()
    rpc,          \* where request() stands: idle, attempt, backoff, done
    method,       \* the call's method
    endpoint,     \* the call's endpoint
    attempt,      \* the retry loop's attempt
    fetchCount,   \* transport calls this logical call has made
    sleeps,       \* the backoff sleeps this logical call has made
    lastError,    \* the retry loop's lastError
    result,       \* what request() returned or threw
    nCalls,       \* logical calls completed
    served,       \* the last GET a caller of the client got a result of:
                  \* its endpoint, value and time
    wpc,          \* where waitForMutation stands: idle, check, query, sleep, done
    startTime,    \* waitForMutation's startTime
    maxWaitTime,  \* waitForMutation's maxWaitTime
    pollInterval, \* waitForMutation's pollInterval
    polls,        \* status queries this wait has started
    queryStart,   \* Date.now() when the latest status query started
    seen,         \* the handles the status queries of this wait returned
    wsleeps,      \* the poll sleeps this wait has made
    wresult,      \* what waitForMutation returned or threw
    gpc,          \* where the paginateAll generator stands: fetch, items, done
    pageToken,    \* paginateAll's pageToken
    response,     \* paginateAll's response (the page being yielded)
    itemIdx,      \* the next item of response.items to yield
    fetcherCalls, \* the tokens the fetcher was called with
    pagesServed,  \* the pages the fetcher returned
    yielded,      \* the items the generator has yielded
    findOptions,  \* findRows' options
    findKey,      \* the value findRows' predicate looks for
    results,      \* findRows' results
    bpc,          \* where insertRowsBatch stands: idle, insert, wait, done
    batchData,    \* insertRowsBatch's data
    batchOptions, \* insertRowsBatch's options
    batchI,       \* the chunk loop's i
    batchResponse,\* the response of the chunk's insertRows
    allRowIds,    \* insertRowsBatch's allRowIds
    batchResult,  \* what insertRowsBatch returned or threw
    inserts,      \* the row lists client.insertRows was called with
    insertReturns,\* what those calls returned
    waitCalls,    \* the request ids client.waitForMutation was called with
    waitReturns,  \* what those calls returned
    upc,          \* where upsertRow stands: idle, find, write, wait, done
    upsertOptions,\* upsertRow's options
    writes,       \* the updateRow and insertRows calls upsertRow has made
    upsertResponse, \* the response of upsertRow's write
    upsertWaits,  \* the request ids upsertRow called waitForMutation with
    upsertResult, \* what upsertRow returned or threw
    sleepers,     \* the waitForSlot calls that are asleep: their type, the now
                  \* they read, and the time their timer is due (a bag)
    admitted,     \* the waitForSlot calls that resolved inside the last
                  \* window: their type and the time they resolved at
    lastCall,     \* what the latest waitForSlot call found and decided
    slotCalls,    \* waitForSlot calls made, by type
    burst,        \* the type the callers open with
    probes,       \* waitForSlot calls made outside the opening burst
    ticks,        \* clock advances so far
    recordedEntries, \* entries pushed since the limiter was constructed or reset
    defaultTtl,   \* this.cache.defaultTtl
    setLog,       \* by key, the latest set call that no delete or clear
                  \* followed: its value, the ttl it was given, its time
    lastGet,      \* the latest get call: its key, what it returned, its time,
                  \* the set call it followed, whether the key was left stored
    cacheOps,     \* cache operations made
    cacheTicks,   \* clock advances of the cache's run
    responseTimes,\* this.metrics.responseTimes
    recorded,     \* the durations of the recordRequest calls not served from
                  \* the cache, since the collector was constructed or reset
    lastRecord,   \* the arguments of the latest recordRequest call
    metricSteps,  \* cache-served records, rate-limit records, resets and
                  \* clock advances of the collector's run
    ctorInput,    \* what the constructor is given: cfg.apiToken and the two
                  \* environment variables
    constructed,  \* what the constructor returned or threw
    wireCall,     \* the latest call of a row-writing method: its name, the
                  \* endpoint and the body it hands to request()
    wire,         \* the requestOptions request() built for that call
    callers,      \* concurrent upsertRow calls on one table: where each
                  \* stands, its key value, the row its lookup returned, the
                  \* write it issued
    table         \* the rows of that table, on the server

clientVars == <<cfg, retries, rlRequests, cacheStore, cacheHits, cacheMisses, metrics>>

requestVars ==
    <<rpc, method, endpoint, attempt, fetchCount, sleeps, lastError, result, nCalls, served>>

waitVars ==
    <<wpc, startTime, maxWaitTime, pollInterval, polls, queryStart, seen, wsleeps,
      wresult>>

pageVars == <<gpc, pageToken, response, itemIdx, fetcherCalls, pagesServed, yielded>>

findVars == <<findOptions, findKey, results>>

\* the state of the helpers, the limiter's callers and the cache's clients
batchVars ==
    <<bpc, batchData, batchOptions, batchI, batchResponse, allRowIds, batchResult,
      inserts, insertReturns, waitCalls, waitReturns>>

upsertVars == <<upc, upsertOptions, writes, upsertResponse, upsertWaits, upsertResult>>

limiterVars ==
    <<sleepers, admitted, lastCall, slotCalls, burst, probes, ticks, recordedEntries>>

cacheVars == <<defaultTtl, setLog, lastGet, cacheOps, cacheTicks>>

metricsVars == <<responseTimes, recorded, lastRecord, metricSteps>>

ctorVars == <<ctorInput, constructed>>

wireVars == <<wireCall, wire>>

raceVars == <<callers, table>>

moreVars ==
    <<findVars, batchVars, upsertVars, limiterVars, cacheVars, metricsVars, ctorVars,
      wireVars, raceVars>>

vars == <<clientVars, now, requestVars, waitVars, pageVars, moreVars>>

\* ------------------------------------------------------------- construction

\* an option the caller leaves out, or sets to false
Config(r, flag) ==
    [retries |-> r, enableRateLimit |-> flag, enableCache |-> flag, enableMetrics |-> flag]

\* the options left out (every subsystem on), or every subsystem switched off
Configs == {Config(r, flag) : r \in 0..MaxRetries, flag \in {"undefined", "false"}}

\* this.retries = cfg.retries || 3 (a retries option left out is falsy, as 0 is)
ConfiguredRetries(c) == IF c.retries = 0 THEN DefaultRetries ELSE c.retries

\* if (cfg.enableRateLimit !== false) this.rateLimiter = new RateLimiter()
HasRateLimiter == cfg.enableRateLimit # "false"

\* if (cfg.enableCache !== false) this.cache = new ApiCache(cfg.cacheTtl)
HasCache == cfg.enableCache # "false"

\* if (cfg.enableMetrics !== false) this.metrics = new MetricsCollector()
HasMetrics == cfg.enableMetrics # "false"

\* ApiCache's defaultTtl when cfg.cacheTtl is left out
DefaultCacheTtl == 300000

\* private readonly maxResponseTimeHistory = 100
maxResponseTimeHistory == 100

\* token.length > 20
MinTokenLength == 20

\* Infinity, which no count reaches
Infinity == 0 - 2

\* a quotient, kept as numerator and denominator
Ratio(n, d) == [num |-> n, den |-> d]

\* MetricsCollector's metrics as constructed, and as reset() leaves them
InitialMetrics ==
    [totalRequests |-> 0, successfulRequests |-> 0, failedRequests |-> 0,
     rateLimitHits |-> 0, avgResponseTime |-> Ratio(0, 1),
     minResponseTime |-> Infinity, maxResponseTime |-> 0, cacheHits |-> 0,
     lastRequestTime |-> 0]

\* a token that is not there: let pageToken (no value yet), or a response
\* without nextPageToken
Undefined == "undefined"

\* a CodaResponse: items (left out when hasItems is FALSE) and nextPageToken
Page(hasItems, items, next) == [hasItems |-> hasItems, items |-> items, nextPageToken |-> next]

NotServed == [endpoint |-> "", value |-> NoBody, at |-> 0]

NoKeys == {}

EmptyStore == [k \in NoKeys |-> NoBody]

InitClient(c) ==
    /\ cfg = c
    /\ retries = ConfiguredRetries(c)
    /\ rlRequests = << >>
    /\ cacheStore = EmptyStore
    /\ cacheHits = 0
    /\ cacheMisses = 0
    /\ metrics = InitialMetrics
    /\ now = 0

InitRequest ==
    /\ rpc = "idle"
    /\ method = "GET"
    /\ endpoint = ""
    /\ attempt = 0
    /\ fetchCount = 0
    /\ sleeps = << >>
    /\ lastError = NoError
    /\ result = NoOutcome
    /\ nCalls = 0
    /\ served = NotServed

InitWait ==
    /\ wpc = "idle"
    /\ startTime = 0
    /\ maxWaitTime = 0
    /\ pollInterval = 0
    /\ polls = 0
    /\ queryStart = 0
    /\ seen = << >>
    /\ wsleeps = << >>
    /\ wresult = NoOutcome

InitPages ==
    /\ gpc = "idle"
    /\ pageToken = Undefined
    /\ response = Page(FALSE, << >>, Undefined)
    /\ itemIdx = 1
    /\ fetcherCalls = << >>
    /\ pagesServed = << >>
    /\ yielded = << >>

\* findRows has not been called
InitFind ==
    /\ findOptions = [limit |-> 0]
    /\ findKey = ""
    /\ results = << >>

\* a CodaMutationResponse: requestId and addedRowIds (left out when
\* hasAddedRowIds is FALSE)
MutationResponse(requestId, hasAddedRowIds, addedRowIds) ==
    [requestId |-> requestId, hasAddedRowIds |-> hasAddedRowIds,
     addedRowIds |-> addedRowIds]

NoMutationResponse == MutationResponse(0, FALSE, << >>)

\* insertRowsBatch has not been called
InitBatch ==
    /\ bpc = "idle"
    /\ batchData = << >>
    /\ batchOptions = [batchSize |-> 0, waitForCompletion |-> FALSE]
    /\ batchI = 0
    /\ batchResponse = NoMutationResponse
    /\ allRowIds = << >>
    /\ batchResult = NoOutcome
    /\ inserts = << >>
    /\ insertReturns = << >>
    /\ waitCalls = << >>
    /\ waitReturns = << >>

\* upsertRow has not been called
InitUpsert ==
    /\ upc = "idle"
    /\ upsertOptions = [waitForCompletion |-> FALSE]
    /\ writes = << >>
    /\ upsertResponse = NoMutationResponse
    /\ upsertWaits = << >>
    /\ upsertResult = NoOutcome

\* the traffic classes
SlotTypes == {"read", "write"}

\* what a waitForSlot call found and decided: the entries of its type and of
\* the other type inside the window, the timestamp of the first of its type,
\* the calls of its type that resolved inside the window and the earliest
\* time one did, whether it slept and for how long
SlotCall(type, at, sameType, otherType, firstSame, admittedInWindow, oldestAdmitted, slept, waitTime) ==
    [type |-> type, at |-> at, sameType |-> sameType, otherType |-> otherType,
     firstSame |-> firstSame, admittedInWindow |-> admittedInWindow,
     oldestAdmitted |-> oldestAdmitted, slept |-> slept, waitTime |-> waitTime]

NoSlotCall == SlotCall("none", 0, 0, 0, 0, 0, 0, FALSE, 0)

\* no waitForSlot call has been made; the callers will open with type b
InitLimiter(b) ==
    /\ sleepers = EmptyBag
    /\ admitted = << >>
    /\ lastCall = NoSlotCall
    /\ slotCalls = [t \in SlotTypes |-> 0]
    /\ burst = b
    /\ probes = 0
    /\ ticks = 0
    /\ recordedEntries = 0

\* the keys and the values the cache is used with
CacheKeys == {"k1", "k2"}

CacheValues == {"v1", "v2"}

\* get's null
Null == "null"

\* a ttl argument left out
AbsentTtl == 0 - 1

\* a set call: its value, the ttl it was given and its time
SetCall(data, ttl, at) == [data |-> data, ttl |-> ttl, at |-> at]

NoSetCall == SetCall(Null, AbsentTtl, 0)

\* a get call: its key, what it returned, its time, the set call it
\* followed, and whether the key was still stored when it returned
GetCall(key, returned, at, set, stored) ==
    [key |-> key, returned |-> returned, at |-> at, set |-> set, stored |-> stored]

NoGetCall == GetCall("", Null, 0, NoSetCall, FALSE)

\* new ApiCache(ttl): nothing stored, no call made
InitCache(ttl) ==
    /\ defaultTtl = ttl
    /\ setLog = [k \in CacheKeys |-> NoSetCall]
    /\ lastGet = NoGetCall
    /\ cacheOps = 0
    /\ cacheTicks = 0

RecordCall(duration, success, fromCache) ==
    [duration |-> duration, success |-> success, fromCache |-> fromCache]

NoRecordCall == [duration |-> 0, success |-> FALSE, fromCache |-> FALSE]

InitMetrics ==
    /\ responseTimes = << >>
    /\ recorded = << >>
    /\ lastRecord = NoRecordCall
    /\ metricSteps = 0

\* a token left out, or the empty string: both are falsy
NoToken == << >>

CtorInput(apiToken, envApiToken, envToken) ==
    [apiToken |-> apiToken, CODA_API_TOKEN |-> envApiToken, CODA_TOKEN |-> envToken]

InitCtor ==
    /\ ctorInput = CtorInput(NoToken, NoToken, NoToken)
    /\ constructed = NoOutcome

\* no body: a method that hands request() none, and a request sent without
NoRequestBody == [key |-> "", items |-> << >>]

NoWireCall == [name |-> "", method |-> "", endpoint |-> << >>, body |-> NoRequestBody]

NotSent == << >>

InitWire ==
    /\ wireCall = NoWireCall
    /\ wire = [method |-> "", endpoint |-> << >>, body |-> NotSent]

\* no upsertRow call is running, on an empty table
InitRace ==
    /\ callers = << >>
    /\ table = << >>

InitMore ==
    /\ InitFind
    /\ InitBatch
    /\ InitUpsert
    /\ InitLimiter("read")
    /\ InitCache(DefaultCacheTtl)
    /\ InitMetrics
    /\ InitCtor
    /\ InitWire
    /\ InitRace

\* ----------------------------------------------------------- request engine

Methods == {"GET", "POST", "DELETE"}

Endpoints == {"/a", "/b"}

\* how long a transport call may take
FetchLatencies == {0, 1000}

\* the same, where no deadline is watched
NoLatency == {0}

\* NonRetryable rethrowing whatever was caught
NonRetryable_everyError(e) == TRUE

\* NonRetryable with 422 left out of the list
NonRetryable_without422(e) == IsCodaApiError(e) /\ e.statusCode \in {401, 403, 400}

\* if (error instanceof CodaApiError && [401, 403, 400, 422].includes(error.statusCode)) throw error
NonRetryable(e) == IsCodaApiError(e) /\ e.statusCode \in {401, 403, 400, 422}

\* Backoff growing by a second each attempt instead of doubling
Backoff_linear(k) == (k + 1) * BackoffUnit

\* Math.pow(2, attempt) * 1000
Backoff(k) == Pow2(k) * BackoffUnit

\* if (attempt < this.retries) await this.sleep(...)
SleepsAfter(k) == k < retries

\* request() up to its first fetch: no await, and no use of this.rateLimiter,
\* this.cache or this.metrics, comes before the retry loop
BeginRequest(m, e) ==
    /\ rpc' = "attempt"
    /\ method' = m
    /\ endpoint' = e
    /\ attempt' = 0
    /\ fetchCount' = 0
    /\ sleeps' = << >>
    /\ lastError' = NoError
    /\ result' = NoOutcome

\* return / throw out of request()
EndRequest(outcome) ==
    /\ rpc' = "done"
    /\ result' = outcome
    /\ nCalls' = nCalls + 1
    /\ served' =
         IF outcome.kind = "return" /\ method = "GET" /\ wpc = "idle"
         THEN [endpoint |-> endpoint, value |-> outcome.value, at |-> now']
         ELSE served

\* a caller calls one of the client's methods, which calls request()
CallRequest(m, e) ==
    /\ rpc \in {"idle", "done"}
    /\ wpc = "idle"
    /\ nCalls < MaxCalls
    /\ BeginRequest(m, e)
    /\ UNCHANGED <<clientVars, moreVars, now, nCalls, served, waitVars, pageVars>>

\* one turn of the retry loop: the transport call, handleResponse, the catch
FetchAttempt(r, latency) ==
    /\ rpc = "attempt"
    /\ fetchCount' = fetchCount + 1
    /\ now' = now + latency
    /\ LET out == Attempt(r) IN
         IF out.kind = "return"
         THEN /\ EndRequest(out)
              /\ UNCHANGED <<attempt, sleeps, lastError>>
         ELSE /\ lastError' = out.error
              /\ IF NonRetryable(out.error)
                 THEN /\ EndRequest(out)
                      /\ UNCHANGED <<attempt, sleeps>>
                 ELSE IF SleepsAfter(attempt)
                 THEN /\ rpc' = "backoff"
                      /\ sleeps' = Append(sleeps, Backoff(attempt))
                      /\ UNCHANGED <<attempt, result, nCalls, served>>
                 ELSE IF attempt + 1 <= retries
                 THEN /\ attempt' = attempt + 1
                      /\ UNCHANGED <<rpc, sleeps, result, nCalls, served>>
                 ELSE /\ attempt' = attempt + 1
                      /\ EndRequest(Throw(out.error))
                      /\ UNCHANGED sleeps
    /\ UNCHANGED <<clientVars, moreVars, method, endpoint, waitVars, pageVars>>

\* the backoff sleep ends: attempt++ and the loop goes on
BackoffWake ==
    /\ rpc = "backoff"
    /\ now' = now + sleeps[Len(sleeps)]
    /\ attempt' = attempt + 1
    /\ rpc' = "attempt"
    /\ UNCHANGED <<clientVars, moreVars, method, endpoint, fetchCount, sleeps, lastError,
                   result, nCalls, served, waitVars, pageVars>>

InitSpecRequest ==
    /\ \E c \in Configs : InitClient(c)
    /\ InitRequest
    /\ InitWait
    /\ InitPages
    /\ InitMore

NextRequest ==
    \/ \E m \in Methods, e \in Endpoints : CallRequest(m, e)
    \/ \E r \in Responses(PayloadBodies), l \in NoLatency : FetchAttempt(r, l)
    \/ BackoffWake

SpecRequest == InitSpecRequest /\ [][NextRequest]_vars

\* ----------------------------------------------------------- mutation poller

\* EffectiveMaxWaitTime taking the option as it is given
EffectiveMaxWaitTime_asGiven(opt) == opt

\* options?.maxWaitTime || 30000 (an option left out is falsy, as 0 is)
EffectiveMaxWaitTime(opt) == IF opt = 0 THEN DefaultMaxWaitTime ELSE opt

\* options?.pollInterval || 1000
EffectivePollInterval(opt) == IF opt = 0 THEN DefaultPollInterval ELSE opt

\* IsTerminal taking 'complete' alone for terminal
IsTerminal_completeOnly(status) == status = "complete"

\* status.status === 'complete' || status.status === 'failed'
IsTerminal(status) == status \in {"complete", "failed"}

\* DeadlineOpen letting a query start when the elapsed time equals maxWaitTime
DeadlineOpen_inclusive(t) == t - startTime <= maxWaitTime

\* while (Date.now() - startTime < maxWaitTime)
DeadlineOpen(t) == t - startTime < maxWaitTime

\* new CodaApiError('Timeout en attendant la completion de la mutation', 408)
TimeoutError == CodaApiError("Timeout", TimeoutStatus)

\* AfterStatus throwing on a failed mutation instead of returning it
AfterStatus_throwsOnFailed(status) ==
    IF status.status = "failed" THEN Throw(CodaApiError(status.error, 500))
    ELSE IF IsTerminal(status.status) THEN Return(status)
    ELSE NoOutcome

\* the loop body after the status query: return status when it is terminal,
\* otherwise (NoOutcome) sleep and loop
AfterStatus(status) == IF IsTerminal(status.status) THEN Return(status) ELSE NoOutcome

StatusEndpoint == "/mutationStatus"

\* waitForMutation(requestId, options) up to its loop
StartWait(maxWaitOpt, pollOpt) ==
    /\ wpc = "idle"
    /\ rpc = "idle"
    /\ maxWaitTime' = EffectiveMaxWaitTime(maxWaitOpt)
    /\ pollInterval' = EffectivePollInterval(pollOpt)
    /\ startTime' = now
    /\ wpc' = "check"
    /\ UNCHANGED <<clientVars, moreVars, now, requestVars, polls, queryStart, seen, wsleeps,
                   wresult, pageVars>>

\* the loop's test, and either the status query (getMutationStatus, which
\* runs request() up to its first fetch) or the throw after the loop
PollCheck ==
    /\ wpc = "check"
    /\ IF DeadlineOpen(now)
       THEN /\ wpc' = "query"
            /\ polls' = polls + 1
            /\ queryStart' = now
            /\ BeginRequest("GET", StatusEndpoint)
            /\ UNCHANGED <<wresult, nCalls, served>>
       ELSE /\ wpc' = "done"
            /\ wresult' = Throw(TimeoutError)
            /\ UNCHANGED <<polls, queryStart, requestVars>>
    /\ UNCHANGED <<clientVars, moreVars, now, startTime, maxWaitTime, pollInterval, seen,
                   wsleeps, pageVars>>

\* the status query has ended: its error propagates, or its status is looked at
PollResume ==
    /\ wpc = "query"
    /\ rpc = "done"
    /\ rpc' = "idle"
    /\ IF result.kind = "throw"
       THEN /\ wpc' = "done"
            /\ wresult' = Propagate(result)
            /\ UNCHANGED <<seen, wsleeps>>
       ELSE /\ seen' = Append(seen, result.value)
            /\ LET out == AfterStatus(result.value) IN
                 IF out.kind = "none"
                 THEN /\ wpc' = "sleep"
                      /\ wsleeps' = Append(wsleeps, pollInterval)
                      /\ UNCHANGED wresult
                 ELSE /\ wpc' = "done"
                      /\ wresult' = out
                      /\ UNCHANGED wsleeps
    /\ UNCHANGED <<clientVars, moreVars, now, method, endpoint, attempt, fetchCount, sleeps,
                   lastError, result, nCalls, served, startTime, maxWaitTime,
                   pollInterval, polls, queryStart, pageVars>>

\* await this.sleep(pollInterval) ends
PollWake ==
    /\ wpc = "sleep"
    /\ now' = now + wsleeps[Len(wsleeps)]
    /\ wpc' = "check"
    /\ UNCHANGED <<clientVars, moreVars, requestVars, startTime, maxWaitTime, pollInterval,
                   polls, queryStart, seen, wsleeps, wresult, pageVars>>

WaitOptions(maxWaitOpt, pollOpt) == [maxWaitTime |-> maxWaitOpt, pollInterval |-> pollOpt]

\* the options a caller passes (0: the option is left out)
WaitOptionSets ==
    {WaitOptions(0, 12000), WaitOptions(2000, 0), WaitOptions(2000, 1500),
     WaitOptions(3000, 0), WaitOptions(3000, 500)}

\* what the transport answers a status query with: a JSON status, an error
\* response that is retried, one that is not, or nothing
StatusResponses ==
    {Response(200, AbsentHeader, TRUE, TRUE, "", b) : b \in StatusBodies}
    \cup {Response(500, AbsentHeader, TRUE, TRUE, "server message", NoBody),
          Response(401, AbsentHeader, TRUE, TRUE, "server message", NoBody),
          Rejection}

InitSpecPoll ==
    /\ \E c \in Configs : InitClient(c)
    /\ InitRequest
    /\ InitWait
    /\ InitPages
    /\ InitMore

NextPoll ==
    \/ \E o \in WaitOptionSets : StartWait(o.maxWaitTime, o.pollInterval)
    \/ PollCheck
    \/ \E r \in StatusResponses, l \in FetchLatencies : FetchAttempt(r, l)
    \/ BackoffWake
    \/ PollResume
    \/ PollWake

\* the event loop runs every timer that is due and every continuation that is
\* ready, and the transport answers or rejects every call
SpecPoll == InitSpecPoll /\ [][NextPoll]_vars /\ WF_vars(NextPoll)

\* ---------------------------------------------------------------- paginateAll

\* the page tokens a server hands out
PageTokens == {"t1", "t2"}

\* while (pageToken): undefined and the empty string are falsy
Truthy(token) == token # Undefined /\ token # ""

\* NextToken keeping the token the page was asked with
NextToken_stale(page) == pageToken

\* pageToken = response.nextPageToken
NextToken(page) == page.nextPageToken

\* the n-th page the fetcher serves, with size items: each item is named by
\* its page and its place on it
PageItems(n, size) == [i \in 1..size |-> <<n, i>>]

\* the pages the fetcher may answer its n-th call with: with or without
\* items, with or without a next token, and without one on page MaxPages
PagesAt(n) ==
    {Page(TRUE, PageItems(n, size), next) :
        size \in 0..MaxItems,
        next \in (IF n < MaxPages THEN PageTokens ELSE {}) \cup {Undefined}}
    \cup {Page(FALSE, << >>, next) :
        next \in (IF n < MaxPages THEN PageTokens ELSE {}) \cup {Undefined}}

\* the consumer's first next(): the generator's body starts, pageToken unset
StartPaginate ==
    /\ gpc = "idle"
    /\ gpc' = "fetch"
    /\ pageToken' = Undefined
    /\ UNCHANGED <<clientVars, moreVars, now, requestVars, waitVars, response, itemIdx,
                   fetcherCalls, pagesServed, yielded>>

\* const response = await fetcher(pageToken)
GenFetch(page) ==
    /\ gpc = "fetch"
    /\ fetcherCalls' = Append(fetcherCalls, pageToken)
    /\ pagesServed' = Append(pagesServed, page)
    /\ response' = page
    /\ itemIdx' = 1
    /\ gpc' = "items"
    /\ UNCHANGED <<clientVars, moreVars, now, requestVars, waitVars, pageToken, yielded>>

\* yield item, for the next item of response.items
GenYield ==
    /\ gpc = "items"
    /\ response.hasItems
    /\ itemIdx <= Len(response.items)
    /\ yielded' = Append(yielded, response.items[itemIdx])
    /\ itemIdx' = itemIdx + 1
    /\ UNCHANGED <<clientVars, moreVars, now, requestVars, waitVars, gpc, pageToken, response,
                   fetcherCalls, pagesServed>>

\* the items are through: pageToken = response.nextPageToken; while (pageToken)
GenNextPage ==
    /\ gpc = "items"
    /\ ~response.hasItems \/ itemIdx > Len(response.items)
    /\ pageToken' = NextToken(response)
    /\ gpc' = IF Truthy(pageToken') THEN "fetch" ELSE "done"
    /\ UNCHANGED <<clientVars, moreVars, now, requestVars, waitVars, response, itemIdx,
                   fetcherCalls, pagesServed, yielded>>

InitSpecPages ==
    /\ InitClient(Config(0, "undefined"))
    /\ InitRequest
    /\ InitWait
    /\ InitPages
    /\ InitMore

NextPages ==
    \/ StartPaginate
    \/ \E page \in PagesAt(Len(fetcherCalls) + 1) : GenFetch(page)
    \/ GenYield
    \/ GenNextPage

SpecPages == InitSpecPages /\ [][NextPages]_vars

\* ------------------------------------------------------------------ findRows

\* the values a row's key column may hold
Keys == {"a", "b"}

\* a CodaRow: its id (the page it is on and its place there) and the value of
\* the column the predicate reads
Row(n, i, key) == [id |-> <<n, i>>, key |-> key]

\* the pages listRows may answer its n-th call with: rows with any key
\* values, with or without a next token, and without one on page MaxRowPages
RowPagesAt(n) ==
    {Page(TRUE, [i \in 1..size |-> Row(n, i, keys[i])], next) :
        size \in 0..MaxRows,
        keys \in [1..MaxRows -> Keys],
        next \in (IF n < MaxRowPages THEN {"t1"} ELSE {}) \cup {Undefined}}

\* options?.limit || 1
EffectiveLimit_one(opt) == IF opt = 0 THEN 1 ELSE opt

\* const limit = options?.limit || Infinity (an absent limit is written 0)
EffectiveLimit(opt) == IF opt = 0 THEN Infinity ELSE opt

\* results.length > limit
ReachedLimit_after(n, limit) == limit # Infinity /\ n > limit

\* results.length >= limit
ReachedLimit(n, limit) == limit # Infinity /\ n >= limit

\* predicate(row), for the predicates that compare a column with a value
Matches(row) == row.key = findKey

\* findRows is called: results = [], limit, and the for await asks the
\* generator for its first row
StartFind(limitOpt, key) ==
    /\ gpc = "idle"
    /\ findOptions' = [limit |-> limitOpt]
    /\ findKey' = key
    /\ results' = << >>
    /\ gpc' = "fetch"
    /\ pageToken' = Undefined
    /\ UNCHANGED <<clientVars, now, requestVars, waitVars, metricsVars, ctorVars, wireVars, raceVars, response, itemIdx,
                   fetcherCalls, pagesServed, yielded, batchVars, upsertVars, limiterVars, cacheVars>>

\* the generator yields the next row and the loop's body runs on it: a
\* matching row is pushed, and at the limit the break ends the generator
FindRow ==
    /\ gpc = "items"
    /\ response.hasItems
    /\ itemIdx <= Len(response.items)
    /\ yielded' = Append(yielded, response.items[itemIdx])
    /\ itemIdx' = itemIdx + 1
    /\ results' = IF Matches(response.items[itemIdx])
                  THEN Append(results, response.items[itemIdx])
                  ELSE results
    /\ gpc' = IF /\ Matches(response.items[itemIdx])
                 /\ ReachedLimit(Len(results'), EffectiveLimit(findOptions.limit))
              THEN "done"
              ELSE gpc
    /\ UNCHANGED <<clientVars, now, requestVars, waitVars, metricsVars, ctorVars, wireVars, raceVars, pageToken, response,
                   fetcherCalls, pagesServed, findOptions, findKey, batchVars,
                   upsertVars, limiterVars, cacheVars>>

InitSpecFind ==
    /\ InitClient(Config(0, "undefined"))
    /\ InitRequest
    /\ InitWait
    /\ InitPages
    /\ InitMore

NextFind ==
    \/ \E limitOpt \in 0..MaxLimit, key \in Keys : StartFind(limitOpt, key)
    \/ \E page \in RowPagesAt(Len(fetcherCalls) + 1) : GenFetch(page)
    \/ FindRow
    \/ GenNextPage

SpecFind == InitSpecFind /\ [][NextFind]_vars

\* ------------------------------------------------------------ insertRowsBatch

\* options?.batchSize || 100 (an absent size is written 0)
EffectiveBatchSize(opt) == IF opt = 0 THEN DefaultBatchSize ELSE opt

\* Chunk holding one record only
Chunk_single(data, i, size) == SubSeq(data, i + 1, i + 1)

\* data.slice(i, i + batchSize)
Chunk(data, i, size) ==
    SubSeq(data, i + 1, IF i + size < Len(data) THEN i + size ELSE Len(data))

\* new Error(`Échec de l'insertion du batch: ${status.error}`)
BatchFailedError(error) == Err("Error", 0, 0, <<"Échec de l'insertion du batch: ", error>>)

\* what client.insertRows may answer the k-th call, made with rows, with: a
\* response with an identifier per row or without addedRowIds, or a fault
InsertOutcomes(k, rows) ==
    {Return(MutationResponse(k, TRUE, [j \in 1..Len(rows) |-> <<k, j>>])),
     Return(MutationResponse(k, FALSE, << >>)),
     Throw(CodaApiError("Unprocessable", 422))}

\* what client.waitForMutation may end with: a terminal status, or its timeout
WaitOutcomes ==
    {Return(b) : b \in {s \in StatusBodies : IsTerminal(s.status)}}
    \cup {Throw(TimeoutError)}

\* AfterBatchWait taking a failed mutation for a completed one
AfterBatchWait_ignoresFailed(status) == NoOutcome

\* if (status.status === 'failed') throw new Error(...)
AfterBatchWait(status) ==
    IF status.status = "failed" THEN Throw(BatchFailedError(status.error)) ELSE NoOutcome

\* the loop's test with i at start and ids collected: the next chunk's
\* insertRows is called, or the loop is over and allRowIds is returned
BatchLoop(data, size, start, ids) ==
    /\ batchI' = start
    /\ allRowIds' = ids
    /\ IF start < Len(data)
       THEN /\ inserts' = Append(inserts, Chunk(data, start, size))
            /\ bpc' = "insert"
            /\ batchResult' = NoOutcome
       ELSE /\ inserts' = inserts
            /\ bpc' = "done"
            /\ batchResult' = Return(ids)

\* if (response.addedRowIds) allRowIds.push(...response.addedRowIds), and
\* the loop goes on with i += batchSize
BatchCollect(resp) ==
    BatchLoop(batchData, EffectiveBatchSize(batchOptions.batchSize),
              batchI + EffectiveBatchSize(batchOptions.batchSize),
              IF resp.hasAddedRowIds THEN allRowIds \o resp.addedRowIds ELSE allRowIds)

\* insertRowsBatch is called with n records
StartBatch(n, sizeOpt, wait) ==
    /\ bpc = "idle"
    /\ batchData' = [r \in 1..n |-> r]
    /\ batchOptions' = [batchSize |-> sizeOpt, waitForCompletion |-> wait]
    /\ BatchLoop(batchData', EffectiveBatchSize(sizeOpt), 0, << >>)
    /\ UNCHANGED <<clientVars, now, requestVars, waitVars, metricsVars, ctorVars, wireVars, raceVars, pageVars, findVars, upsertVars, limiterVars, cacheVars,
                   batchResponse, insertReturns, waitCalls, waitReturns>>

\* await client.insertRows(...) is over
BatchInsertReturn(outcome) ==
    /\ bpc = "insert"
    /\ insertReturns' = Append(insertReturns, outcome)
    /\ IF outcome.kind = "throw"
       THEN /\ bpc' = "done"
            /\ batchResult' = Propagate(outcome)
            /\ UNCHANGED <<batchResponse, batchI, allRowIds, inserts, waitCalls>>
       ELSE /\ batchResponse' = outcome.value
            /\ IF batchOptions.waitForCompletion
               THEN /\ waitCalls' = Append(waitCalls, outcome.value.requestId)
                    /\ bpc' = "wait"
                    /\ UNCHANGED <<batchI, allRowIds, batchResult, inserts>>
               ELSE /\ BatchCollect(outcome.value)
                    /\ UNCHANGED waitCalls
    /\ UNCHANGED <<clientVars, now, requestVars, waitVars, metricsVars, ctorVars, wireVars, raceVars, pageVars, findVars, upsertVars, limiterVars, cacheVars,
                   batchData, batchOptions, waitReturns>>

\* await client.waitForMutation(response.requestId) is over
BatchWaitReturn(outcome) ==
    /\ bpc = "wait"
    /\ waitReturns' = Append(waitReturns, outcome)
    /\ IF outcome.kind = "throw"
       THEN /\ bpc' = "done"
            /\ batchResult' = Propagate(outcome)
            /\ UNCHANGED <<batchI, allRowIds, inserts>>
       ELSE IF AfterBatchWait(outcome.value) # NoOutcome
       THEN /\ bpc' = "done"
            /\ batchResult' = AfterBatchWait(outcome.value)
            /\ UNCHANGED <<batchI, allRowIds, inserts>>
       ELSE BatchCollect(batchResponse)
    /\ UNCHANGED <<clientVars, now, requestVars, waitVars, metricsVars, ctorVars, wireVars, raceVars, pageVars, findVars, upsertVars, limiterVars, cacheVars,
                   batchData, batchOptions, batchResponse, insertReturns, waitCalls>>

InitSpecBatch ==
    /\ InitClient(Config(0, "undefined"))
    /\ InitRequest
    /\ InitWait
    /\ InitPages
    /\ InitMore

NextBatch ==
    \/ \E n \in 0..MaxRecords, sizeOpt \in 0..MaxBatchSize, wait \in BOOLEAN :
         StartBatch(n, sizeOpt, wait)
    \/ /\ bpc = "insert"
       /\ \E outcome \in InsertOutcomes(Len(inserts), inserts[Len(inserts)]) :
            BatchInsertReturn(outcome)
    \/ \E outcome \in WaitOutcomes : BatchWaitReturn(outcome)

SpecBatch == InitSpecBatch /\ [][NextBatch]_vars

\* ------------------------------------------------------------------ upsertRow

\* response.addedRowIds?.[0] of a response without identifiers
NoRowId == << >>

\* ExistingRow never finding a row
ExistingRow_never(rows) == NoRowId

\* findRowByColumnValue's rows[0] || null, as the row's id (NoRowId for null)
ExistingRow(rows) == IF rows = << >> THEN NoRowId ELSE rows[1].id

\* a write upsertRow makes through the client: updateRow on a row id, or
\* insertRows of one row with its key columns, for the data's key value
Write(op, rowId, keyColumns, key) ==
    [op |-> op, rowId |-> rowId, keyColumns |-> keyColumns, key |-> key]

\* ChosenWrite looking the key up in the table again before it writes
ChosenWrite_rechecked(found, key) ==
    IF \E i \in DOMAIN table : table[i].key = key
    THEN Write("update", table[CHOOSE i \in DOMAIN table : table[i].key = key].id, << >>, key)
    ELSE Write("insert", NoRowId, <<"keyColumn">>, key)

\* if (existingRow) client.updateRow(..., existingRow.id, ...) else
\* client.insertRows(..., [createRow(data)], { keyColumns: [keyColumn] })
ChosenWrite(found, key) ==
    IF found # NoRowId
    THEN Write("update", found, << >>, key)
    ELSE Write("insert", NoRowId, <<"keyColumn">>, key)

\* what upsertRow returns
UpsertReturn(action, rowId, requestId) ==
    [action |-> action, rowId |-> rowId, requestId |-> requestId]

\* response.addedRowIds?.[0]
FirstAddedRowId(resp) ==
    IF resp.hasAddedRowIds /\ resp.addedRowIds # << >> THEN resp.addedRowIds[1]
    ELSE NoRowId

\* what the client may answer a write with: the mutation's response (an
\* insert's with or without the new row's identifier), or a fault
WriteOutcomes(write) ==
    (IF write.op = "insert"
     THEN {Return(MutationResponse(1, TRUE, <<<<0, 1>>>>)),
           Return(MutationResponse(1, FALSE, << >>))}
     ELSE {Return(MutationResponse(1, FALSE, << >>))})
    \cup {Throw(CodaApiError("Unprocessable", 422))}

\* the value upsertRow returns after its write was answered with resp
UpsertValue(write, resp) ==
    IF write.op = "update"
    THEN UpsertReturn("updated", write.rowId, resp.requestId)
    ELSE UpsertReturn("inserted", FirstAddedRowId(resp), resp.requestId)

\* upsertRow is called with data whose key column holds key: the lookup,
\* findRowByColumnValue, is findRows with that value and limit 1
StartUpsert(key, wait) ==
    /\ upc = "idle"
    /\ gpc = "idle"
    /\ upc' = "find"
    /\ upsertOptions' = [waitForCompletion |-> wait]
    /\ findOptions' = [limit |-> 1]
    /\ findKey' = key
    /\ results' = << >>
    /\ gpc' = "fetch"
    /\ pageToken' = Undefined
    /\ UNCHANGED <<clientVars, now, requestVars, waitVars, metricsVars, ctorVars, wireVars, raceVars, response, itemIdx,
                   fetcherCalls, pagesServed, yielded, batchVars, limiterVars, cacheVars, writes,
                   upsertResponse, upsertWaits, upsertResult>>

\* the lookup is over: updateRow on the row found, or insertRows of the data
\* with keyColumns [keyColumn]
UpsertWrite ==
    /\ upc = "find"
    /\ gpc = "done"
    /\ writes' = Append(writes, ChosenWrite(ExistingRow(results), findKey))
    /\ upc' = "write"
    /\ UNCHANGED <<clientVars, now, requestVars, waitVars, metricsVars, ctorVars, wireVars, raceVars, pageVars, findVars,
                   batchVars, limiterVars, cacheVars, upsertOptions, upsertResponse, upsertWaits,
                   upsertResult>>

\* await client.updateRow(...) or await client.insertRows(...) is over
UpsertWriteReturn(outcome) ==
    /\ upc = "write"
    /\ IF outcome.kind = "throw"
       THEN /\ upc' = "done"
            /\ upsertResult' = Propagate(outcome)
            /\ UNCHANGED <<upsertResponse, upsertWaits>>
       ELSE /\ upsertResponse' = outcome.value
            /\ IF upsertOptions.waitForCompletion
               THEN /\ upsertWaits' = Append(upsertWaits, outcome.value.requestId)
                    /\ upc' = "wait"
                    /\ UNCHANGED upsertResult
               ELSE /\ upc' = "done"
                    /\ upsertResult' = Return(UpsertValue(writes[Len(writes)], outcome.value))
                    /\ UNCHANGED upsertWaits
    /\ UNCHANGED <<clientVars, now, requestVars, waitVars, metricsVars, ctorVars, wireVars, raceVars, pageVars, findVars,
                   batchVars, limiterVars, cacheVars, upsertOptions, writes>>

\* await client.waitForMutation(response.requestId) is over: its status is
\* not looked at
UpsertWaitReturn(outcome) ==
    /\ upc = "wait"
    /\ upc' = "done"
    /\ upsertResult' = IF outcome.kind = "throw" THEN Propagate(outcome)
                       ELSE Return(UpsertValue(writes[Len(writes)], upsertResponse))
    /\ UNCHANGED <<clientVars, now, requestVars, waitVars, metricsVars, ctorVars, wireVars, raceVars, pageVars, findVars,
                   batchVars, limiterVars, cacheVars, upsertOptions, writes, upsertResponse, upsertWaits>>

InitSpecUpsert ==
    /\ InitClient(Config(0, "undefined"))
    /\ InitRequest
    /\ InitWait
    /\ InitPages
    /\ InitMore

NextUpsert ==
    \/ \E key \in Keys, wait \in BOOLEAN : StartUpsert(key, wait)
    \/ \E page \in RowPagesAt(Len(fetcherCalls) + 1) : GenFetch(page)
    \/ FindRow
    \/ GenNextPage
    \/ UpsertWrite
    \/ /\ upc = "write"
       /\ \E outcome \in WriteOutcomes(writes[Len(writes)]) : UpsertWriteReturn(outcome)
    \/ \E outcome \in WaitOutcomes : UpsertWaitReturn(outcome)

SpecUpsert == InitSpecUpsert /\ [][NextUpsert]_vars

\* ------------------------------------------------------------------ RateLimiter

\* const limits = { read: 100, write: 10 }
Limit(type) == IF type = "read" THEN ReadLimit ELSE WriteLimit

\* an entry of this.requests
SlotEntry(timestamp, type) == [timestamp |-> timestamp, type |-> type]

\* a waitForSlot call asleep: its type, the now it read, when its timer is due
Sleeper(type, timestamp, wake) == [type |-> type, timestamp |-> timestamp, wake |-> wake]

\* this.requests.filter(req => now - req.timestamp < window)
Pruned(requests, t) == SelectSeq(requests, LAMBDA req : t - req.timestamp < Window)

\* TypeRequests taking the entries of every type
TypeRequests_anyType(requests, type) == requests

\* this.requests.filter(req => req.type === type)
TypeRequests(requests, type) == SelectSeq(requests, LAMBDA req : req.type = type)

\* AtLimit one entry early
AtLimit_early(count, type) == count + 1 >= Limit(type)

\* typeRequests.length >= limits[type]
AtLimit(count, type) == count >= Limit(type)

\* WaitTime a window longer
WaitTime_longer(typeRequests, t) == 2 * Window - (t - typeRequests[1].timestamp)

\* window - (now - oldestRequest.timestamp), oldestRequest = typeRequests[0]
WaitTime(typeRequests, t) == Window - (t - typeRequests[1].timestamp)

\* the waitForSlot calls of a type that resolved less than a window before t
AdmittedInWindow(type, t) ==
    SelectSeq(admitted, LAMBDA a : a.type = type /\ t - a.at < Window)

\* the entries of the list that are of a type (or not) and inside the window at t
EntriesInWindow(type, same, t) ==
    {i \in DOMAIN rlRequests :
        /\ (rlRequests[i].type = type) = same
        /\ t - rlRequests[i].timestamp < Window}

\* the smallest element of a non-empty set of numbers
Least(S) == CHOOSE x \in S : \A y \in S : x <= y

\* what a waitForSlot(type) call at time t finds, and what it decides
Observed(type, t, slept, waitTime) ==
    SlotCall(type, t,
             Cardinality(EntriesInWindow(type, TRUE, t)),
             Cardinality(EntriesInWindow(type, FALSE, t)),
             IF EntriesInWindow(type, TRUE, t) = {} THEN 0
             ELSE rlRequests[Least(EntriesInWindow(type, TRUE, t))].timestamp,
             Len(AdmittedInWindow(type, t)),
             IF AdmittedInWindow(type, t) = << >> THEN 0
             ELSE Least({AdmittedInWindow(type, t)[i].at :
                            i \in DOMAIN AdmittedInWindow(type, t)}),
             slept, waitTime)

\* the calls the callers open with, at time 0: up to the type's limit and over
BurstBudget(type) == Limit(type) + (IF type = "read" THEN MaxOverRead ELSE MaxOverWrite)

\* the points of the opening burst at which a call outside it is made: before
\* it, one call short of the limit, at the limit, and after it
ProbePoints == {0, Limit(burst) - 1, Limit(burst), BurstBudget(burst)}

\* waitForSlot(type) up to its await, and to its end when it does not sleep:
\* prune, count the entries of the type, and sleep at the limit or push. The
\* callers open with a burst of one type at time 0 and make a few calls
\* outside it, of the other type during the burst and of any type later
WaitForSlot(type) ==
    /\ IF type = burst /\ now = 0
       THEN /\ slotCalls[type] < BurstBudget(type)
            /\ UNCHANGED probes
       ELSE /\ probes < MaxProbes
            /\ now = 0 => slotCalls[burst] \in ProbePoints
            /\ probes' = probes + 1
    /\ slotCalls' = [slotCalls EXCEPT ![type] = @ + 1]
    /\ LET pruned == Pruned(rlRequests, now)
           typeRequests == TypeRequests(pruned, type)
       IN IF AtLimit(Len(typeRequests), type)
          THEN /\ rlRequests' = pruned
               /\ sleepers' = sleepers (+) SetToBag({Sleeper(type, now,
                                                   now + WaitTime(typeRequests, now))})
               /\ lastCall' = Observed(type, now, TRUE, WaitTime(typeRequests, now))
               /\ UNCHANGED <<admitted, recordedEntries>>
          ELSE /\ rlRequests' = Append(pruned, SlotEntry(now, type))
               /\ admitted' = Append(admitted, [type |-> type, at |-> now])
               /\ recordedEntries' = recordedEntries + 1
               /\ lastCall' = Observed(type, now, FALSE, 0)
               /\ UNCHANGED sleepers
    /\ UNCHANGED <<cfg, retries, cacheStore, cacheHits, cacheMisses, metrics, now,
                   requestVars, waitVars, metricsVars, ctorVars, wireVars, raceVars, pageVars, findVars, batchVars, upsertVars,
                   cacheVars, burst, ticks>>

\* a sleeping call's timer fires: this.requests.push({ timestamp: now, type })
\* with the now the call read before it slept, and the call resolves
SlotWake(s) ==
    /\ s \in BagToSet(sleepers)
    /\ s.wake <= now
    /\ sleepers' = sleepers (-) SetToBag({s})
    /\ rlRequests' = Append(rlRequests, SlotEntry(s.timestamp, s.type))
    /\ admitted' = Append(admitted, [type |-> s.type, at |-> now])
    /\ recordedEntries' = recordedEntries + 1
    /\ UNCHANGED <<cfg, retries, cacheStore, cacheHits, cacheMisses, metrics, now,
                   requestVars, waitVars, metricsVars, ctorVars, wireVars, raceVars, pageVars, findVars, batchVars, upsertVars,
                   cacheVars, lastCall, slotCalls, burst, probes, ticks>>

\* the steps the clock advances by
TickSteps == {Window \div 2, Window}

\* time passes, not beyond the time a timer is due; the calls that resolved a
\* window ago or more are forgotten
Tick(d) ==
    /\ ticks < MaxTicks
    /\ \A s \in BagToSet(sleepers) : now + d <= s.wake
    /\ now' = now + d
    /\ ticks' = ticks + 1
    /\ admitted' = SelectSeq(admitted, LAMBDA a : now' - a.at < Window)
    /\ UNCHANGED <<clientVars, requestVars, waitVars, metricsVars, ctorVars, wireVars, raceVars, pageVars, findVars, batchVars,
                   upsertVars, cacheVars, sleepers, lastCall, slotCalls, burst, probes,
                   recordedEntries>>

\* setTimeout: with calls asleep and none of them due, time reaches the
\* earliest timer
TimerDue ==
    /\ sleepers # EmptyBag
    /\ \A s \in BagToSet(sleepers) : s.wake > now
    /\ now' = Least({s.wake : s \in BagToSet(sleepers)})
    /\ admitted' = SelectSeq(admitted, LAMBDA a : now' - a.at < Window)
    /\ UNCHANGED <<clientVars, requestVars, waitVars, metricsVars, ctorVars, wireVars, raceVars, pageVars, findVars, batchVars,
                   upsertVars, cacheVars, sleepers, lastCall, slotCalls, burst, probes,
                   ticks, recordedEntries>>

\* getStats() at time t
LimiterStats(t) ==
    [totalRequests |-> Len(rlRequests),
     recentRequests |-> Len(Pruned(rlRequests, t)),
     readRequests |-> Len(TypeRequests(Pruned(rlRequests, t), "read")),
     writeRequests |-> Len(TypeRequests(Pruned(rlRequests, t), "write"))]

\* reset(), one of the calls made outside the opening burst
LimiterReset ==
    /\ probes < MaxProbes
    /\ now = 0 => slotCalls[burst] \in ProbePoints
    /\ probes' = probes + 1
    /\ rlRequests' = << >>
    /\ recordedEntries' = 0
    /\ UNCHANGED <<cfg, retries, cacheStore, cacheHits, cacheMisses, metrics, now,
                   requestVars, waitVars, metricsVars, ctorVars, wireVars, raceVars, pageVars, findVars,
                   batchVars, upsertVars, cacheVars, sleepers, admitted, lastCall,
                   slotCalls, burst, ticks>>

InitSpecLimiter ==
    /\ InitClient(Config(0, "undefined"))
    /\ InitRequest
    /\ InitWait
    /\ InitPages
    /\ InitFind
    /\ InitBatch
    /\ InitUpsert
    /\ \E b \in SlotTypes : InitLimiter(b)
    /\ InitCache(DefaultCacheTtl)
    /\ InitMetrics
    /\ InitCtor
    /\ InitWire
    /\ InitRace

NextLimiter ==
    \/ \E type \in SlotTypes : WaitForSlot(type)
    \/ \E s \in BagToSet(sleepers) : SlotWake(s)
    \/ LimiterReset
    \/ \E d \in TickSteps : Tick(d)
    \/ TimerDue

SpecLimiter == InitSpecLimiter /\ [][NextLimiter]_vars

InitSpecLimiterLive ==
    /\ InitClient(Config(0, "undefined"))
    /\ InitRequest
    /\ InitWait
    /\ InitPages
    /\ InitFind
    /\ InitBatch
    /\ InitUpsert
    /\ InitLimiter("read")
    /\ InitCache(DefaultCacheTtl)
    /\ InitMetrics
    /\ InitCtor
    /\ InitWire
    /\ InitRace

\* the callers open with reads; the event loop lets every timer come due and
\* runs every timer that is due
SpecLimiterLive ==
    /\ InitSpecLimiterLive
    /\ [][NextLimiter]_vars
    /\ WF_vars(TimerDue)
    /\ WF_vars(\E s \in BagToSet(sleepers) : SlotWake(s))

\* --------------------------------------------------------------------- ApiCache

\* a CacheEntry
CacheEntry(data, timestamp, ttl) == [data |-> data, timestamp |-> timestamp, ttl |-> ttl]

\* const actualTtl = ttl || this.defaultTtl: a ttl left out and a ttl of 0
\* are both falsy
ActualTtl(ttl) == IF ttl = AbsentTtl \/ ttl = 0 THEN defaultTtl ELSE ttl

\* Expired from the instant timestamp + ttl on
Expired_inclusive(entry, t) == t >= entry.timestamp + entry.ttl

\* Date.now() > entry.timestamp + entry.ttl
Expired(entry, t) == t > entry.timestamp + entry.ttl

\* ExpiredKeys taking every key for expired
ExpiredKeys_all(store, t) == DOMAIN store

\* cleanup's loop: the keys whose entry has now > entry.timestamp + entry.ttl
ExpiredKeys(store, t) == {k \in DOMAIN store : Expired(store[k], t)}

\* HitRate dividing the misses
HitRate_ofMisses(hits, misses) ==
    IF hits + misses > 0 THEN Ratio(misses, hits + misses) ELSE Ratio(0, 1)

\* this.hits + this.misses > 0 ? this.hits / (this.hits + this.misses) : 0
HitRate(hits, misses) ==
    IF hits + misses > 0 THEN Ratio(hits, hits + misses) ELSE Ratio(0, 1)

\* getStats()
CacheStats ==
    [size |-> Cardinality(DOMAIN cacheStore), hits |-> cacheHits,
     misses |-> cacheMisses, hitRate |-> HitRate(cacheHits, cacheMisses)]

\* the store without some keys
Without(store, keys) == [k \in DOMAIN store \ keys |-> store[k]]

\* one more cache operation
CacheOp ==
    /\ cacheOps < MaxCacheOps
    /\ cacheOps' = cacheOps + 1

\* set(key, data, ttl)
CacheSet(key, data, ttl) ==
    /\ CacheOp
    /\ cacheStore' = [k \in DOMAIN cacheStore \cup {key} |->
                        IF k = key THEN CacheEntry(data, now, ActualTtl(ttl))
                        ELSE cacheStore[k]]
    /\ setLog' = [setLog EXCEPT ![key] = SetCall(data, ttl, now)]
    /\ UNCHANGED <<cfg, retries, rlRequests, cacheHits, cacheMisses, metrics, now,
                   requestVars, waitVars, metricsVars, ctorVars, wireVars, raceVars, pageVars, findVars, batchVars, upsertVars,
                   limiterVars, defaultTtl, lastGet, cacheTicks>>

\* get(key)
CacheGet(key) ==
    /\ CacheOp
    /\ IF key \notin DOMAIN cacheStore
       THEN /\ cacheMisses' = cacheMisses + 1
            /\ lastGet' = GetCall(key, Null, now, setLog[key], FALSE)
            /\ UNCHANGED <<cacheStore, cacheHits>>
       ELSE IF Expired(cacheStore[key], now)
       THEN /\ cacheStore' = Without(cacheStore, {key})
            /\ cacheMisses' = cacheMisses + 1
            /\ lastGet' = GetCall(key, Null, now, setLog[key], FALSE)
            /\ UNCHANGED cacheHits
       ELSE /\ cacheHits' = cacheHits + 1
            /\ lastGet' = GetCall(key, cacheStore[key].data, now, setLog[key], TRUE)
            /\ UNCHANGED <<cacheStore, cacheMisses>>
    /\ UNCHANGED <<cfg, retries, rlRequests, metrics, now, requestVars, waitVars, metricsVars, ctorVars, wireVars, raceVars,
                   pageVars, findVars, batchVars, upsertVars, limiterVars, defaultTtl,
                   setLog, cacheTicks>>

\* delete(key)
CacheDelete(key) ==
    /\ CacheOp
    /\ cacheStore' = Without(cacheStore, {key})
    /\ setLog' = [setLog EXCEPT ![key] = NoSetCall]
    /\ UNCHANGED <<cfg, retries, rlRequests, cacheHits, cacheMisses, metrics, now,
                   requestVars, waitVars, metricsVars, ctorVars, wireVars, raceVars, pageVars, findVars, batchVars, upsertVars,
                   limiterVars, defaultTtl, lastGet, cacheTicks>>

\* clear()
CacheClear ==
    /\ CacheOp
    /\ cacheStore' = EmptyStore
    /\ cacheHits' = 0
    /\ cacheMisses' = 0
    /\ setLog' = [k \in CacheKeys |-> NoSetCall]
    /\ UNCHANGED <<cfg, retries, rlRequests, metrics, now, requestVars, waitVars, metricsVars, ctorVars, wireVars, raceVars,
                   pageVars, findVars, batchVars, upsertVars, limiterVars, defaultTtl,
                   lastGet, cacheTicks>>

\* cleanup()
CacheCleanup ==
    /\ CacheOp
    /\ cacheStore' = Without(cacheStore, ExpiredKeys(cacheStore, now))
    /\ UNCHANGED <<cfg, retries, rlRequests, cacheHits, cacheMisses, metrics, now,
                   requestVars, waitVars, metricsVars, ctorVars, wireVars, raceVars, pageVars, findVars, batchVars, upsertVars,
                   limiterVars, defaultTtl, setLog, lastGet, cacheTicks>>

\* the ttl arguments set is given: none, 0, one millisecond
TtlOptions == {AbsentTtl, 0, 1}

\* the default ttl a cache is constructed with: none given, or one second
DefaultTtls == {DefaultCacheTtl, 1000}

\* the steps the cache's clock advances by
CacheTickSteps == {1, 1000}

\* time passes
CacheTick(d) ==
    /\ cacheTicks < MaxCacheTicks
    /\ cacheTicks' = cacheTicks + 1
    /\ now' = now + d
    /\ UNCHANGED <<clientVars, requestVars, waitVars, metricsVars, ctorVars, wireVars, raceVars, pageVars, findVars, batchVars,
                   upsertVars, limiterVars, defaultTtl, setLog, lastGet, cacheOps>>

InitSpecCache ==
    /\ InitClient(Config(0, "undefined"))
    /\ InitRequest
    /\ InitWait
    /\ InitPages
    /\ InitFind
    /\ InitBatch
    /\ InitUpsert
    /\ InitLimiter("read")
    /\ \E ttl \in DefaultTtls : InitCache(ttl)
    /\ InitMetrics
    /\ InitCtor
    /\ InitWire
    /\ InitRace

NextCache ==
    \/ \E key \in CacheKeys, data \in CacheValues, ttl \in TtlOptions :
         CacheSet(key, data, ttl)
    \/ \E key \in CacheKeys : CacheGet(key)
    \/ \E key \in CacheKeys : CacheDelete(key)
    \/ CacheClear
    \/ CacheCleanup
    \/ \E d \in CacheTickSteps : CacheTick(d)

SpecCache == InitSpecCache /\ [][NextCache]_vars

\* ------------------------------------------------------------ MetricsCollector

\* this.responseTimes.reduce((a, b) => a + b, 0)
RECURSIVE Sum(_)
Sum(times) == IF times = << >> THEN 0 ELSE times[1] + Sum(Tail(times))

\* Math.min, of Infinity too
MathMin(a, b) == IF a = Infinity THEN b ELSE IF b = Infinity THEN a ELSE IF a < b THEN a ELSE b

\* Math.max, of Infinity too
MathMax(a, b) == IF a = Infinity \/ b = Infinity THEN Infinity ELSE IF a > b THEN a ELSE b

\* A history that is never shifted
Shifted_never(times) == times

\* if (this.responseTimes.length > this.maxResponseTimeHistory) this.responseTimes.shift()
Shifted(times) == IF Len(times) > maxResponseTimeHistory THEN Tail(times) ELSE times

\* this.responseTimes.push(duration), and the shift
Pushed(times, duration) == Shifted(Append(times, duration))

\* Counted leaving cacheHits alone
Counted_noCacheHit(m, fromCache, t) ==
    [m EXCEPT !.totalRequests = @ + 1, !.lastRequestTime = t]

\* recordRequest up to the return of the fromCache branch
Counted(m, fromCache, t) ==
    [m EXCEPT !.totalRequests = @ + 1,
              !.lastRequestTime = t,
              !.cacheHits = IF fromCache THEN @ + 1 ELSE @]

\* Timed counting the successes only
Timed_successOnly(m, times, duration, success) ==
    [m EXCEPT !.successfulRequests = IF success THEN @ + 1 ELSE @,
              !.minResponseTime = MathMin(@, duration),
              !.maxResponseTime = MathMax(@, duration),
              !.avgResponseTime = Ratio(Sum(times), Len(times))]

\* recordRequest after the fromCache branch, times being the history after the
\* push and the shift
Timed(m, times, duration, success) ==
    [m EXCEPT !.successfulRequests = IF success THEN @ + 1 ELSE @,
              !.failedRequests = IF success THEN @ ELSE @ + 1,
              !.minResponseTime = MathMin(@, duration),
              !.maxResponseTime = MathMax(@, duration),
              !.avgResponseTime = Ratio(Sum(times), Len(times))]

\* the durations a caller measures
Durations == {1, 2}

\* the callers vary their arguments on the first two measured calls and once
\* the history is full; in between every call repeats the duration before it
\* and succeeds
Varying == Len(recorded) <= 1 \/ Len(recorded) >= maxResponseTimeHistory

DurationsNow == IF Varying THEN Durations ELSE {recorded[Len(recorded)]}

SuccessNow == IF Varying THEN BOOLEAN ELSE {TRUE}

MetricStep ==
    /\ metricSteps < MaxMetricSteps
    /\ metricSteps' = metricSteps + 1

\* recordRequest(duration, success, fromCache)
RecordRequest(duration, success, fromCache) ==
    /\ lastRecord' = RecordCall(duration, success, fromCache)
    /\ IF fromCache
       THEN /\ Varying
            /\ MetricStep
            /\ metrics' = Counted(metrics, TRUE, now)
            /\ UNCHANGED <<responseTimes, recorded>>
       ELSE /\ Len(recorded) < maxResponseTimeHistory + MaxOverHistory
            /\ duration \in DurationsNow
            /\ success \in SuccessNow
            /\ responseTimes' = Pushed(responseTimes, duration)
            /\ recorded' = Append(recorded, duration)
            /\ metrics' = Timed(Counted(metrics, FALSE, now), responseTimes', duration, success)
            /\ UNCHANGED metricSteps
    /\ UNCHANGED <<cfg, retries, rlRequests, cacheStore, cacheHits, cacheMisses, now,
                   requestVars, waitVars, pageVars, findVars, batchVars, upsertVars,
                   limiterVars, cacheVars, ctorVars, wireVars, raceVars>>

\* recordRateLimit()
RecordRateLimit ==
    /\ Varying
    /\ MetricStep
    /\ metrics' = [metrics EXCEPT !.rateLimitHits = @ + 1]
    /\ UNCHANGED <<cfg, retries, rlRequests, cacheStore, cacheHits, cacheMisses, now,
                   requestVars, waitVars, pageVars, findVars, batchVars, upsertVars,
                   limiterVars, cacheVars, ctorVars, wireVars, raceVars, responseTimes, recorded, lastRecord>>

\* getStats(): a copy of the metrics
MetricsStats == metrics

\* reset()
MetricsReset ==
    /\ MetricStep
    /\ metrics' = InitialMetrics
    /\ responseTimes' = << >>
    /\ recorded' = << >>
    /\ lastRecord' = NoRecordCall
    /\ UNCHANGED <<cfg, retries, rlRequests, cacheStore, cacheHits, cacheMisses, now,
                   requestVars, waitVars, pageVars, findVars, batchVars, upsertVars,
                   limiterVars, cacheVars, ctorVars, wireVars, raceVars>>

MetricsTickSteps == {1, 50}

\* time passes
MetricsTick(d) ==
    /\ Varying
    /\ MetricStep
    /\ now' = now + d
    /\ UNCHANGED <<clientVars, requestVars, waitVars, pageVars, findVars, batchVars,
                   upsertVars, limiterVars, cacheVars, ctorVars, wireVars, raceVars, responseTimes,
                   recorded, lastRecord>>

InitSpecMetrics ==
    /\ InitClient(Config(0, "undefined"))
    /\ InitRequest
    /\ InitWait
    /\ InitPages
    /\ InitMore

NextMetrics ==
    \/ \E duration \in Durations, success \in BOOLEAN, fromCache \in BOOLEAN :
         RecordRequest(duration, success, fromCache)
    \/ RecordRateLimit
    \/ MetricsReset
    \/ \E d \in MetricsTickSteps : MetricsTick(d)

SpecMetrics == InitSpecMetrics /\ [][NextMetrics]_vars

\* ------------------------------------------------------- constructor: token

\* a token is the sequence of its characters: a letter, a digit, the
\* underscore, the hyphen, and a character outside [a-zA-Z0-9_-]
TokenChars == {"a", "7", "_", "-", "!"}

\* [a-zA-Z0-9_]
WordChars == {"a", "7", "_"}

\* k times the character c
Run(c, k) == [i \in 1..k |-> c]

TokenHeads == UNION {[1..n -> TokenChars] : n \in 0..MaxTokenHead}

RunLengths == {0} \cup ((MinTokenLength - 1)..(MinTokenLength + 1))

\* the tokens a caller passes: a few free characters, then a run of letters
\* or of hyphens
Tokens == {head \o Run(c, k) : head \in TokenHeads, c \in {"a", "-"}, k \in RunLengths}

\* what the environment holds: nothing, a well-formed token, one too short
EnvTokens == {NoToken, Run("a", MinTokenLength + 1), Run("a", MinTokenLength)}

\* a || b on strings
OrElse(a, b) == IF a # NoToken THEN a ELSE b

\* cfg.apiToken || process.env.CODA_API_TOKEN || process.env.CODA_TOKEN || ''
ResolvedToken(in) ==
    OrElse(in.apiToken, OrElse(in.CODA_API_TOKEN, OrElse(in.CODA_TOKEN, NoToken)))

\* token.replace(/-/g, '')
StripHyphens(token) == SelectSeq(token, LAMBDA c : c # "-")

\* /^[a-zA-Z0-9_-]+$/.test(text)
MatchesTokenPattern(text) ==
    Len(text) >= 1 /\ \A i \in 1..Len(text) : text[i] \in WordChars \cup {"-"}

\* isValidTokenFormat accepting a token of 20 characters
IsValidTokenFormat_from20(token) ==
    Len(token) >= MinTokenLength /\ MatchesTokenPattern(StripHyphens(token))

\* isValidTokenFormat(token)
IsValidTokenFormat(token) ==
    Len(token) > MinTokenLength /\ MatchesTokenPattern(StripHyphens(token))

\* the client the constructor builds
Client(token) == [apiToken |-> token]

\* new CodaClient(configParam), as far as the token decides it
NewCodaClient(in) ==
    LET apiToken == ResolvedToken(in) IN
    IF apiToken = NoToken
    THEN Throw(CodaApiError("Token API Coda is required", 401))
    ELSE IF ~IsValidTokenFormat(apiToken)
    THEN Throw(CodaApiError("Token format invalid", 401))
    ELSE Return(Client(apiToken))

\* a caller constructs a client
Construct ==
    /\ constructed.kind = "none"
    /\ constructed' = NewCodaClient(ctorInput)
    /\ UNCHANGED <<clientVars, now, requestVars, waitVars, pageVars, findVars, batchVars,
                   upsertVars, limiterVars, cacheVars, metricsVars, wireVars, raceVars, ctorInput>>

InitSpecCtor ==
    /\ InitClient(Config(0, "undefined"))
    /\ InitRequest
    /\ InitWait
    /\ InitPages
    /\ InitFind
    /\ InitBatch
    /\ InitUpsert
    /\ InitLimiter("read")
    /\ InitCache(DefaultCacheTtl)
    /\ InitMetrics
    /\ \E apiToken \in Tokens, envApiToken \in EnvTokens, envToken \in EnvTokens :
         ctorInput = CtorInput(apiToken, envApiToken, envToken)
    /\ constructed = NoOutcome
    /\ InitWire
    /\ InitRace

NextCtor == Construct

SpecCtor == InitSpecCtor /\ [][NextCtor]_vars

\* ------------------------------------------------- request(): the body sent

DocIds == {"d1", "d2"}

TableIds == {"t1", "t2"}

\* row ids, and the rows of insertRows and updateRow
WireItems == {"i1", "i2", "i3"}

WireItemLists == UNION {[1..n -> WireItems] : n \in 0..MaxWireItems}

\* const body = { rowIds }, { rows, ...options }, { row, ...options }
RequestBody(key, items) == [key |-> key, items |-> items]

\* JSON.stringify(body): the text, token by token
JsonStringify(body) == <<"{", body.key, ":", "[">> \o body.items \o <<"]", "}">>

\* A body serialized whatever the method
WireBody_anyMethod(m, body) ==
    IF body # NoRequestBody THEN JsonStringify(body) ELSE NotSent

\* if (body && (method === 'POST' || method === 'PUT')) requestOptions.body = JSON.stringify(body)
WireBody(m, body) ==
    IF body # NoRequestBody /\ m \in {"POST", "PUT"} THEN JsonStringify(body) ELSE NotSent

\* `/docs/${docId}/tables/${tableId}/rows`
RowsEndpoint(docId, tableId) == <<"docs", docId, "tables", tableId, "rows">>

\* a row-writing method calls request(endpoint, {method, body}), which builds
\* requestOptions
WireRequest(name, m, e, body) ==
    /\ wireCall' = [name |-> name, method |-> m, endpoint |-> e, body |-> body]
    /\ wire' = [method |-> m, endpoint |-> e, body |-> WireBody(m, body)]
    /\ UNCHANGED <<clientVars, now, requestVars, waitVars, pageVars, findVars, batchVars,
                   upsertVars, limiterVars, cacheVars, metricsVars, ctorVars, raceVars>>

\* insertRows(docId, tableId, rows)
CallInsertRows(docId, tableId, rows) ==
    WireRequest("insertRows", "POST", RowsEndpoint(docId, tableId), RequestBody("rows", rows))

\* updateRow(docId, tableId, rowId, row)
CallUpdateRow(docId, tableId, rowId, row) ==
    WireRequest("updateRow", "PUT", Append(RowsEndpoint(docId, tableId), rowId), RequestBody("row", <<row>>))

\* deleteRow(docId, tableId, rowId)
CallDeleteRow(docId, tableId, rowId) ==
    WireRequest("deleteRow", "DELETE", Append(RowsEndpoint(docId, tableId), rowId), NoRequestBody)

\* deleteRows(docId, tableId, rowIds)
CallDeleteRows(docId, tableId, rowIds) ==
    WireRequest("deleteRows", "DELETE", RowsEndpoint(docId, tableId), RequestBody("rowIds", rowIds))

InitSpecWire ==
    /\ InitClient(Config(0, "undefined"))
    /\ InitRequest
    /\ InitWait
    /\ InitPages
    /\ InitMore

NextWire ==
    \E docId \in DocIds, tableId \in TableIds :
        \/ \E rows \in WireItemLists : CallInsertRows(docId, tableId, rows)
        \/ \E rowId \in WireItems, row \in WireItems : CallUpdateRow(docId, tableId, rowId, row)
        \/ \E rowId \in WireItems : CallDeleteRow(docId, tableId, rowId)
        \/ \E rowIds \in WireItemLists : CallDeleteRows(docId, tableId, rowIds)

SpecWire == InitSpecWire /\ [][NextWire]_vars

\* ------------------------------------------- upsertRow, calls running at once

NoWrite == Write("none", NoRowId, << >>, "")

\* an upsertRow call: where it stands (find, write, done), data[keyColumn],
\* the id of the row its lookup returned, the write it issued
Caller(pc, key, found, write) == [pc |-> pc, key |-> key, found |-> found, write |-> write]

\* the tables the calls start on: no row, or one row holding a key value
StartTables == {<< >>} \cup {<<Row(1, 1, key)>> : key \in Keys}

\* the rows of the table whose key column holds the value
RowsWithKey(rows, key) == SelectSeq(rows, LAMBDA row : row.key = key)

\* the server applies a write: an insert with keyColumns adds a row unless
\* one holds the key value already; an update leaves the key values as they are
Applied(rows, write) ==
    IF write.op = "insert" /\ RowsWithKey(rows, write.key) = << >>
    THEN Append(rows, Row(1, Len(rows) + 1, write.key))
    ELSE rows

\* the table the calls run on is chosen before the first of them starts
RaceTable(t) ==
    /\ callers = << >>
    /\ table = << >>
    /\ t # << >>
    /\ table' = t
    /\ UNCHANGED <<clientVars, now, requestVars, waitVars, pageVars, findVars, batchVars,
                   upsertVars, limiterVars, cacheVars, metricsVars, ctorVars, wireVars,
                   callers>>

\* upsertRow(client, docId, tableId, data, keyColumn) is called
RaceStart(key) ==
    /\ Len(callers) < MaxCallers
    /\ callers' = Append(callers, Caller("find", key, NoRowId, NoWrite))
    /\ UNCHANGED <<clientVars, now, requestVars, waitVars, pageVars, findVars, batchVars,
                   upsertVars, limiterVars, cacheVars, metricsVars, ctorVars, wireVars,
                   table>>

\* await findRowByColumnValue(...) is over: the first row that holds the key
\* value, of the table as it is when the listing is served
RaceLookup(p) ==
    /\ callers[p].pc = "find"
    /\ callers' = [callers EXCEPT ![p].pc = "write",
                                  ![p].found = ExistingRow(RowsWithKey(table, callers[p].key))]
    /\ UNCHANGED <<clientVars, now, requestVars, waitVars, pageVars, findVars, batchVars,
                   upsertVars, limiterVars, cacheVars, metricsVars, ctorVars, wireVars,
                   table>>

\* the call issues its write, chosen from existingRow as the lookup left it,
\* and the server applies it
RaceWrite(p) ==
    /\ callers[p].pc = "write"
    /\ LET write == ChosenWrite(callers[p].found, callers[p].key) IN
         /\ callers' = [callers EXCEPT ![p].pc = "done", ![p].write = write]
         /\ table' = Applied(table, write)
    /\ UNCHANGED <<clientVars, now, requestVars, waitVars, pageVars, findVars, batchVars,
                   upsertVars, limiterVars, cacheVars, metricsVars, ctorVars, wireVars>>

InitSpecRace ==
    /\ InitClient(Config(0, "undefined"))
    /\ InitRequest
    /\ InitWait
    /\ InitPages
    /\ InitMore

NextRace ==
    \/ \E t \in StartTables : RaceTable(t)
    \/ \E key \in Keys : RaceStart(key)
    \/ \E p \in DOMAIN callers : RaceLookup(p)
    \/ \E p \in DOMAIN callers : RaceWrite(p)

SpecRace == InitSpecRace /\ [][NextRace]_vars

\* ------------------------------------------------- claims: request engine

InFlight == rpc \in {"attempt", "backoff"}

\* C1: a response with status 400, 401, 403 or 422 ends the logical call at
\* once: its error is thrown to the caller, and no transport call and no
\* backoff sleep follows it (one transport call in all when it answers the
\* first attempt), whatever this.retries is.
C1_ClientErrorNotRetried ==
    (lastError.type = "CodaApiError" /\ lastError.statusCode \in {400, 401, 403, 422})
    => /\ rpc = "done"
       /\ result.kind = "throw"
       /\ result.error = lastError
       /\ fetchCount = attempt + 1
       /\ Len(sleeps) = attempt

C1_Witness ==
    /\ rpc = "done"
    /\ retries >= 2
    /\ lastError.statusCode = 422
    /\ result = Throw(lastError)
    /\ fetchCount = 1
    /\ sleeps = << >>

\* C2: a 429 response ends the logical call at once with a CodaRateLimitError
\* carrying the parsed retry-after value: no transport call and no backoff
\* sleep follows it.
C2_RateLimitNotRetried ==
    (lastError.type = "CodaRateLimitError")
    => /\ rpc = "done"
       /\ result.kind = "throw"
       /\ result.error = lastError
       /\ lastError.statusCode = RateLimitStatus
       /\ fetchCount = attempt + 1
       /\ Len(sleeps) = attempt

\* C3: the sleep after attempt k is 2^k seconds, and a call that ends by
\* throwing a 500 error (as it does when every attempt gets a 500 response)
\* has made this.retries + 1 transport calls and this.retries sleeps, none
\* after the last attempt, and throws the error of the last attempt.
C3_ServerErrorRetried ==
    /\ \A k \in 1..Len(sleeps) : sleeps[k] = Pow2(k - 1) * 1000
    /\ (rpc = "done" /\ result.kind = "throw" /\ result.error.statusCode = 500)
       => /\ fetchCount = retries + 1
          /\ Len(sleeps) = retries
          /\ attempt = retries + 1
          /\ result.error = lastError

C3_Witness ==
    /\ rpc = "done"
    /\ retries = 3
    /\ result.kind = "throw"
    /\ result.error.statusCode = 500
    /\ fetchCount = 4
    /\ sleeps = <<1000, 2000, 4000>>

\* the traffic class of a call: read for GET, write otherwise
TrafficClass(m) == IF m = "GET" THEN "read" ELSE "write"

\* C4: with a rate limiter constructed, every logical call has been admitted
\* by it before its first transport call: the limiter holds one admission per
\* logical call begun, the last one of the call's traffic class.
C4_AdmittedBeforeTransport ==
    HasRateLimiter
    => /\ Len(rlRequests) = nCalls + (IF InFlight THEN 1 ELSE 0)
       /\ (InFlight => rlRequests[Len(rlRequests)].type = TrafficClass(method))

\* C5: with a cache constructed, a GET that succeeded has its result stored
\* under its key, and a GET for the key of an earlier successful GET, within
\* the ttl, never reaches the retry loop.
C5_ReadServedFromCache ==
    (HasCache /\ method = "GET")
    => /\ (rpc = "done" /\ result.kind = "return")
          => /\ endpoint \in DOMAIN cacheStore
             /\ cacheStore[endpoint].data = result.value
       /\ ~(/\ InFlight
            /\ served.endpoint = endpoint
            /\ now - served.at <= DefaultCacheTtl)

\* C6: with a metrics collector constructed, every completed logical call is
\* recorded once: totalRequests is the number of completed calls, and so is
\* successfulRequests + failedRequests + cacheHits.
C6_EveryCallRecorded ==
    HasMetrics
    => /\ metrics.totalRequests = nCalls
       /\ metrics.successfulRequests + metrics.failedRequests + metrics.cacheHits = nCalls

\* ------------------------------------------------ claims: mutation poller

LastSeen == seen[Len(seen)]

AllInProgress(n) == \A i \in 1..n : seen[i].status = "inProgress"

\* C7: a wait whose status queries returned k times inProgress and then a
\* terminal status has made k + 1 status queries and k sleeps of pollInterval,
\* returns the terminal handle, and makes no status query once a terminal
\* status has been seen.
C7_PollsUntilTerminal ==
    /\ \A i \in 1..Len(seen) :
         seen[i].status \in {"complete", "failed"}
         => (i = Len(seen) /\ wpc = "done" /\ rpc = "idle")
    /\ (wpc = "done" /\ wresult.kind = "return" /\ AllInProgress(Len(seen) - 1))
       => /\ Len(seen) >= 1
          /\ LastSeen.status \in {"complete", "failed"}
          /\ wresult.value = LastSeen
          /\ polls = Len(seen)
          /\ Len(wsleeps) = Len(seen) - 1
          /\ \A i \in 1..Len(wsleeps) : wsleeps[i] = pollInterval

C7_Witness ==
    /\ wpc = "done"
    /\ wresult.kind = "return"
    /\ Len(seen) = 3
    /\ AllInProgress(2)
    /\ wresult.value.status = "complete"
    /\ polls = 3
    /\ Len(wsleeps) = 2

C8_Safety ==
    /\ (wpc = "query" => queryStart - startTime < maxWaitTime)
    /\ (wpc = "done" /\ wresult.kind = "return")
       => wresult.value.status \in {"complete", "failed"}
    /\ (wpc = "done" /\ wresult.via = "own" /\ AllInProgress(Len(seen)))
       => /\ wresult.kind = "throw"
          /\ wresult.error.type = "CodaApiError"
          /\ wresult.error.statusCode = 408
          /\ now - startTime >= maxWaitTime

\* C8: every wait ends; no status query starts once the elapsed time has
\* reached maxWaitTime; no handle that is not terminal is returned; and a wait
\* whose status queries all returned inProgress ends by throwing a
\* CodaApiError with status 408, the elapsed time being at least maxWaitTime.
C8_TimesOut == [](C8_Safety) /\ ((wpc = "check") ~> (wpc = "done"))

C8_Witness ==
    /\ wpc = "done"
    /\ wresult.kind = "throw"
    /\ wresult.via = "own"
    /\ wresult.error.statusCode = 408
    /\ polls >= 2
    /\ Len(seen) = polls
    /\ AllInProgress(Len(seen))

\* C9: a status query that returns failed makes the wait return that handle,
\* with the server's error detail in it; the only error the wait throws of its
\* own (one it does not pass on from the status query) is the timeout, thrown
\* when the elapsed time has reached maxWaitTime.
C9_FailedIsReturned ==
    /\ (Len(seen) > 0 /\ LastSeen.status = "failed")
       => /\ wpc = "done"
          /\ wresult.kind = "return"
          /\ wresult.value = LastSeen
          /\ wresult.value.error = "Validation error"
    /\ (wpc = "done" /\ wresult.kind = "throw" /\ wresult.via = "own")
       => /\ wresult.error.statusCode = 408
          /\ now - startTime >= maxWaitTime

C9_Witness ==
    /\ wpc = "done"
    /\ wresult.kind = "return"
    /\ wresult.value.status = "failed"
    /\ wresult.value.error = "Validation error"
    /\ polls >= 2

\* ----------------------------------------------------- claims: paginateAll

ItemsOf(page) == IF page.hasItems THEN page.items ELSE << >>

RECURSIVE ItemsOfPages(_)
\* the items of a sequence of pages, in page order then item order
ItemsOfPages(pages) ==
    IF pages = << >> THEN << >>
    ELSE ItemsOfPages(SubSeq(pages, 1, Len(pages) - 1)) \o ItemsOf(pages[Len(pages)])

\* C10: the fetcher is first called with no token and then with the
\* next-token of the page before; no page is fetched after a page without a
\* next-token; and the generator, consumed to its end over p pages, has
\* called the fetcher p times (p >= 1), ended on the first page without a
\* next-token, and yielded every item of every page once, in page order then
\* item order.
C10_PaginateAll ==
    /\ Len(fetcherCalls) = Len(pagesServed)
    /\ \A i \in 1..Len(fetcherCalls) :
         fetcherCalls[i] = IF i = 1 THEN Undefined ELSE pagesServed[i - 1].nextPageToken
    /\ \A i \in 1..(Len(pagesServed) - 1) : pagesServed[i].nextPageToken \in PageTokens
    /\ gpc = "done"
       => /\ Len(fetcherCalls) >= 1
          /\ pagesServed[Len(pagesServed)].nextPageToken = Undefined
          /\ yielded = ItemsOfPages(pagesServed)

C10_Witness ==
    /\ gpc = "done"
    /\ Len(fetcherCalls) = 3
    /\ yielded = <<<<1, 1>>, <<2, 1>>, <<3, 1>>>>

\* -------------------------------------------------------- claims: findRows

\* the rows of a sequence of rows that satisfy the predicate, in order
Matching(rows) == SelectSeq(rows, Matches)

\* the first n elements of a sequence (all of them when it has fewer)
FirstN(s, n) == SubSeq(s, 1, IF Len(s) < n THEN Len(s) ELSE n)

\* C11: findRows with a match limit L >= 1 never holds more than L results
\* and is over as soon as it holds L; when it is over it returns the first L
\* matching rows of the pages fetched, in encounter order (all of them when
\* there are fewer, and then the chain was followed to its end), and the last
\* page fetched is the page that holds the L-th match.
C11_FindStopsAtLimit ==
    findOptions.limit >= 1
    => /\ Len(results) <= findOptions.limit
       /\ Len(results) = findOptions.limit => gpc = "done"
       /\ gpc = "done"
          => /\ results = FirstN(Matching(ItemsOfPages(pagesServed)), findOptions.limit)
             /\ Len(fetcherCalls) = Len(pagesServed)
             /\ IF Len(results) = findOptions.limit
                THEN results[Len(results)].id[1] = Len(pagesServed)
                ELSE pagesServed[Len(pagesServed)].nextPageToken = Undefined

\* the first row of the first page does not match, the second does, and the
\* page names a next page that a limit of one leaves unfetched
C11_Witness ==
    /\ gpc = "done"
    /\ findOptions.limit = 1
    /\ Len(results) = 1
    /\ Len(yielded) = 2
    /\ Len(pagesServed) = 1
    /\ pagesServed[1].nextPageToken = "t1"

\* C12 (as stated): without a requested match count findRows returns at most
\* one row and stops fetching after the page that holds the first match.
C12_DefaultFirstMatchOnly ==
    (findOptions.limit = 0 /\ Len(results) >= 1)
    => /\ Len(results) = 1
       /\ gpc = "done"
       /\ Len(pagesServed) = results[1].id[1]

\* C12 (amended): without a requested match count (or with a count of 0)
\* findRows has no limit: it follows the chain to its end and returns every
\* matching row of every page, in encounter order.
C12_DefaultUnlimited ==
    (findOptions.limit = 0 /\ gpc = "done")
    => /\ results = Matching(ItemsOfPages(pagesServed))
       /\ pagesServed[Len(pagesServed)].nextPageToken = Undefined

\* no limit was given, and three matches over two pages were returned
C12_Witness ==
    /\ gpc = "done"
    /\ findOptions.limit = 0
    /\ Len(pagesServed) = 2
    /\ Len(results) = 3

\* ------------------------------------------------- claims: insertRowsBatch

\* ceil(n / s)
CeilDiv(n, s) == (n + s - 1) \div s

RECURSIVE ConcatIds(_)
\* the identifiers a sequence of insertRows returns carries, in call order
ConcatIds(returns) ==
    IF returns = << >> THEN << >>
    ELSE ConcatIds(SubSeq(returns, 1, Len(returns) - 1))
         \o (IF returns[Len(returns)].kind = "return"
                /\ returns[Len(returns)].value.hasAddedRowIds
             THEN returns[Len(returns)].value.addedRowIds
             ELSE << >>)

\* the chunk size in force
BatchSizeInForce == EffectiveBatchSize(batchOptions.batchSize)

\* C13: the k-th insertRows call carries the k-th run of s records in input
\* order; a call is issued only when the call before it has returned and,
\* with waitForCompletion, when that chunk's waitForMutation has returned
\* too; and a batch over n records that returns has issued exactly
\* ceil(n / s) calls (none for n = 0) and returns the identifiers those
\* calls returned, concatenated in chunk order.
C13_BatchInSequence ==
    /\ \A k \in 1..Len(inserts) :
         inserts[k] = [j \in 1..(IF k * BatchSizeInForce <= Len(batchData)
                                 THEN BatchSizeInForce
                                 ELSE Len(batchData) - (k - 1) * BatchSizeInForce)
                          |-> batchData[(k - 1) * BatchSizeInForce + j]]
    /\ Len(inserts) <= Len(insertReturns) + 1
    /\ Len(inserts) = Len(insertReturns) + 1 <=> bpc = "insert"
    /\ batchOptions.waitForCompletion
       => /\ Len(inserts) <= Len(waitReturns) + 1
          /\ Len(waitCalls) <= Len(insertReturns)
          /\ bpc = "wait" <=> Len(waitCalls) = Len(waitReturns) + 1
          /\ \A k \in 1..Len(waitCalls) : waitCalls[k] = insertReturns[k].value.requestId
    /\ ~batchOptions.waitForCompletion => waitCalls = << >>
    /\ (bpc = "done" /\ batchResult.kind = "return")
       => /\ Len(inserts) = CeilDiv(Len(batchData), BatchSizeInForce)
          /\ batchResult.value = ConcatIds(insertReturns)

\* three records in chunks of two with waitForCompletion: two calls, the
\* second with the last record alone, and three identifiers returned
C13_Witness ==
    /\ bpc = "done"
    /\ batchResult.kind = "return"
    /\ batchOptions.waitForCompletion
    /\ Len(batchData) = 3
    /\ batchOptions.batchSize = 2
    /\ inserts = <<<<1, 2>>, <<3>>>>
    /\ Len(waitReturns) = 2
    /\ batchResult.value = <<<<1, 1>>, <<1, 2>>, <<2, 1>>>>

\* C14: with waitForCompletion, when the awaited mutation of a chunk is
\* reported failed the batch is over with a fault that carries the error the
\* server reported for that chunk: it returns no identifiers, and the failed
\* chunk's insertRows call is the last one issued.
C14_FailedChunkAborts ==
    (Len(waitReturns) >= 1
       /\ waitReturns[Len(waitReturns)].kind = "return"
       /\ waitReturns[Len(waitReturns)].value.status = "failed")
    => /\ bpc = "done"
       /\ batchResult = Throw(BatchFailedError(waitReturns[Len(waitReturns)].value.error))
       /\ Len(inserts) = Len(waitReturns)
       /\ \A k \in 1..Len(inserts) - 1 : insertReturns[k].kind = "return"

\* the second of three chunks failed: one chunk is inserted, the third was
\* never sent
C14_Witness ==
    /\ bpc = "done"
    /\ Len(batchData) = 3
    /\ batchOptions.batchSize = 1
    /\ Len(inserts) = 2
    /\ Len(waitReturns) = 2
    /\ waitReturns[1].value.status = "complete"
    /\ waitReturns[2].value.status = "failed"
    /\ batchResult.kind = "throw"

\* ------------------------------------------------------- claims: upsertRow

\* the rows of the pages the lookup was served whose key column holds the
\* key value
LookupMatches == Matching(ItemsOfPages(pagesServed))

\* C15: an upsertRow whose lookup is over has made exactly one write call
\* (none before): when the pages it was served hold a row whose key column
\* equals the key value, an updateRow on the first such row's identifier and
\* no insert, reported as action updated with that identifier; when they hold
\* none, an insertRows with the key column as keyColumns and no update,
\* reported as action inserted with the identifier the insert returned.
C15_UpsertWritesOnce ==
    /\ upc \in {"idle", "find"} => writes = << >>
    /\ upc \in {"write", "wait", "done"}
       => /\ Len(writes) = 1
          /\ IF LookupMatches # << >>
             THEN writes[1] = Write("update", LookupMatches[1].id, << >>, findKey)
             ELSE /\ writes[1] = Write("insert", NoRowId, <<"keyColumn">>, findKey)
                  /\ pagesServed[Len(pagesServed)].nextPageToken = Undefined
    /\ (upc = "done" /\ upsertResult.kind = "return")
       => IF LookupMatches # << >>
          THEN /\ upsertResult.value.action = "updated"
               /\ upsertResult.value.rowId = LookupMatches[1].id
          ELSE /\ upsertResult.value.action = "inserted"
               /\ upsertResult.value.rowId = FirstAddedRowId(upsertResponse)
               /\ upsertResponse \in {o.value : o \in {w \in WriteOutcomes(writes[1]) : w.kind = "return"}}

\* the key is held by the first row of the second page: one update on that
\* row, after waitForMutation, reported as updated
C15_Witness ==
    /\ upc = "done"
    /\ upsertResult.kind = "return"
    /\ upsertResult.value.action = "updated"
    /\ upsertResult.value.rowId = <<2, 1>>
    /\ upsertWaits = <<1>>
    /\ writes = <<Write("update", <<2, 1>>, << >>, findKey)>>

\* ----------------------------------------------------- claims: RateLimiter

\* C16 (as stated): the waitForSlot calls of one type that resolve within any
\* interval of one window never number more than the type's limit.
C16_RateBounded ==
    \A type \in SlotTypes : Len(AdmittedInWindow(type, now)) <= Limit(type)

\* C17: a waitForSlot call sleeps only when at least limit[type] calls of its
\* type resolved inside the window before it; and starting from an empty
\* limiter, while no more than limit[type] calls of a type have been made,
\* none of them sleeps.
C17_NoDelayBelowLimit ==
    /\ lastCall.slept => lastCall.admittedInWindow >= Limit(lastCall.type)
    /\ \A type \in SlotTypes :
         slotCalls[type] <= Limit(type)
         => /\ \A s \in BagToSet(sleepers) : s.type # type
            /\ lastCall.type = type => ~lastCall.slept

\* the hundredth read call of an empty limiter found ninety-nine entries and
\* did not sleep
C17_Witness ==
    /\ slotCalls["read"] = ReadLimit
    /\ lastCall.type = "read"
    /\ lastCall.sameType = ReadLimit - 1
    /\ ~lastCall.slept
    /\ sleepers = EmptyBag
    /\ Len(rlRequests) = ReadLimit

\* C18 (as stated): a waitForSlot call made when limit[type] calls of its
\* type have resolved inside the window sleeps, for at least the window less
\* the age of the earliest of them.
C18_DelayedAtSaturation ==
    (lastCall.type # "none" /\ lastCall.admittedInWindow >= Limit(lastCall.type))
    => /\ lastCall.slept
       /\ lastCall.waitTime >= Window - (lastCall.at - lastCall.oldestAdmitted)

\* C19: whether a waitForSlot call sleeps, and for how long, is decided by
\* the entries of its own type inside the window alone: it sleeps exactly
\* when they number limit[type] or more, whatever the number of entries of
\* the other type, and then for the window less the age of the first of them.
C19_ClassesIndependent ==
    lastCall.type # "none"
    => /\ lastCall.slept <=> lastCall.sameType >= Limit(lastCall.type)
       /\ lastCall.slept
          => lastCall.waitTime = Window - (lastCall.at - lastCall.firstSame)

\* a write call made with a hundred read entries inside the window and read
\* calls asleep did not sleep
C19_Witness ==
    /\ lastCall.type = "write"
    /\ ~lastCall.slept
    /\ lastCall.otherType >= ReadLimit
    /\ \E s \in BagToSet(sleepers) : s.type = "read"

\* -------------------------------------------------------- claims: ApiCache

\* C20 (as stated): a get(k) that follows set(k, v, t), for every ttl t
\* passed, 0 included, returns v when no time has passed since the set, and
\* when more than t has passed returns null and leaves k out of the store.
C20_ExplicitTtlDecides ==
    (lastGet.set # NoSetCall /\ lastGet.set.ttl # AbsentTtl)
    => /\ lastGet.at = lastGet.set.at => lastGet.returned = lastGet.set.data
       /\ lastGet.at - lastGet.set.at > lastGet.set.ttl
          => /\ lastGet.returned = Null
             /\ ~lastGet.stored

\* a step that is a cache operation on one key other than a get
SetOrDeleteStep(key) ==
    \/ \E data \in CacheValues, ttl \in TtlOptions : CacheSet(key, data, ttl)
    \/ CacheDelete(key)

\* C21: a get returns the stored value only for an entry with
\* now <= timestamp + ttl, and then leaves the store as it is; a get of an
\* entry with now > timestamp + ttl returns null, removes that entry and no
\* other (the size goes down by one) and counts a miss; a get of a key that
\* is not stored returns null.
C21_GetExpiresByStoredTtl ==
    [][\A key \in CacheKeys :
         CacheGet(key)
         => IF key \notin DOMAIN cacheStore
            THEN lastGet'.returned = Null /\ cacheStore' = cacheStore
            ELSE IF now <= cacheStore[key].timestamp + cacheStore[key].ttl
            THEN /\ lastGet'.returned = cacheStore[key].data
                 /\ cacheStore' = cacheStore
            ELSE /\ lastGet'.returned = Null
                 /\ DOMAIN cacheStore' = DOMAIN cacheStore \ {key}
                 /\ Cardinality(DOMAIN cacheStore') = Cardinality(DOMAIN cacheStore) - 1
                 /\ \A k \in DOMAIN cacheStore' : cacheStore'[k] = cacheStore[k]
                 /\ cacheMisses' = cacheMisses + 1
                 /\ cacheHits' = cacheHits]_vars

\* a get made two milliseconds after a set with a ttl of one returned null,
\* removed the entry and counted a miss, the other key staying stored
C21_Witness ==
    /\ lastGet.set # NoSetCall
    /\ lastGet.set.ttl = 1
    /\ lastGet.at = lastGet.set.at + 2
    /\ lastGet.returned = Null
    /\ lastGet.key \notin DOMAIN cacheStore
    /\ cacheMisses = 1
    /\ Cardinality(DOMAIN cacheStore) = 1

\* C22: a get adds one to hits and leaves misses when it returns a value,
\* adds one to misses and leaves hits when it returns null; set, delete,
\* cleanup and the passing of time leave both; clear sets both to 0; and
\* getStats reports the two counters and hits / (hits + misses), or 0 when
\* both are 0.
C22_HitsAndMisses ==
    [][/\ \A key \in CacheKeys :
            /\ CacheGet(key)
               => IF lastGet'.returned # Null
                  THEN cacheHits' = cacheHits + 1 /\ cacheMisses' = cacheMisses
                  ELSE cacheMisses' = cacheMisses + 1 /\ cacheHits' = cacheHits
            /\ SetOrDeleteStep(key)
               => cacheHits' = cacheHits /\ cacheMisses' = cacheMisses
       /\ (CacheCleanup \/ \E d \in CacheTickSteps : CacheTick(d))
          => cacheHits' = cacheHits /\ cacheMisses' = cacheMisses
       /\ CacheClear => cacheHits' = 0 /\ cacheMisses' = 0
       /\ CacheStats'.hits = cacheHits'
       /\ CacheStats'.misses = cacheMisses'
       /\ CacheStats'.hitRate = IF cacheHits' + cacheMisses' = 0 THEN Ratio(0, 1)
                                ELSE Ratio(cacheHits', cacheHits' + cacheMisses')]_vars

\* a miss and then a hit: getStats reports a hit rate of one half
C22_Witness ==
    /\ cacheHits = 1
    /\ cacheMisses = 1
    /\ CacheStats.hitRate = Ratio(1, 2)
    /\ lastGet.returned # Null

Trailing(seq, n) ==
    IF Len(seq) <= n THEN seq ELSE SubSeq(seq, Len(seq) - n + 1, Len(seq))

Elements(seq) == {seq[i] : i \in 1..Len(seq)}

MinOf(seq) == CHOOSE x \in Elements(seq) : \A y \in Elements(seq) : x <= y

MaxOf(seq) == CHOOSE x \in Elements(seq) : \A y \in Elements(seq) : x >= y

\* C24: after recordRequest was called with fromCache false for the durations
\* d_1..d_n, avgResponseTime is the sum of the most recent min(n, 100) of them
\* divided by min(n, 100); the history is those durations, oldest first, and
\* never holds more than 100.
C24_AverageOfTrailingHistory ==
    /\ Len(responseTimes) <= 100
    /\ responseTimes = Trailing(recorded, 100)
    /\ Len(recorded) > 0
       => metrics.avgResponseTime =
              Ratio(Sum(Trailing(recorded, 100)),
                    IF Len(recorded) <= 100 THEN Len(recorded) ELSE 100)

\* 101 durations were recorded, the first of them other than the second: it
\* is out of the history and out of the average
C24_Witness ==
    /\ Len(recorded) = 101
    /\ recorded[1] # recorded[2]
    /\ Len(responseTimes) = 100
    /\ metrics.avgResponseTime = Ratio(Sum(recorded) - recorded[1], 100)

\* C25: after a recordRequest not served from the cache, minResponseTime and
\* maxResponseTime are the least and the greatest of the at most 100 most
\* recent durations.
C25_MinMaxOfTrailingHistory ==
    Len(recorded) > 0
    => /\ metrics.minResponseTime = MinOf(Trailing(recorded, 100))
       /\ metrics.maxResponseTime = MaxOf(Trailing(recorded, 100))

\* C26: recordRequest with fromCache true adds one to totalRequests and to
\* cacheHits, sets lastRequestTime to the time of the call, and leaves
\* successfulRequests, failedRequests, rateLimitHits, avgResponseTime,
\* minResponseTime, maxResponseTime and the history as they are, whatever
\* duration and success it is given.
C26_CacheServedRecord ==
    [][\A duration \in Durations, success \in BOOLEAN :
         RecordRequest(duration, success, TRUE)
         => /\ metrics'.totalRequests = metrics.totalRequests + 1
            /\ metrics'.cacheHits = metrics.cacheHits + 1
            /\ metrics'.lastRequestTime = now
            /\ metrics'.successfulRequests = metrics.successfulRequests
            /\ metrics'.failedRequests = metrics.failedRequests
            /\ metrics'.rateLimitHits = metrics.rateLimitHits
            /\ metrics'.avgResponseTime = metrics.avgResponseTime
            /\ metrics'.minResponseTime = metrics.minResponseTime
            /\ metrics'.maxResponseTime = metrics.maxResponseTime
            /\ responseTimes' = responseTimes]_vars

\* a cache-served record of a failure, later than time 0, after one measured
\* call: the totals count two calls, one of them a cache hit
C26_Witness ==
    /\ lastRecord = RecordCall(2, FALSE, TRUE)
    /\ metrics.lastRequestTime = now
    /\ now > 0
    /\ metrics.cacheHits = 1
    /\ metrics.totalRequests = 2
    /\ metrics.failedRequests = 0
    /\ metrics.maxResponseTime = 1
    /\ Len(responseTimes) = 1

\* --------------------------------------- claims: request engine, retry policy

\* a failure the retry loop does not rethrow at once: fetch rejected, or a
\* 5xx response
RetryableFailure(e) == e = NetworkError \/ (IsCodaApiError(e) /\ e.statusCode >= 500)

\* C27: with the retries option set to 0, a transport exception or a 5xx
\* response ends the logical call: one transport call was made, no backoff
\* sleep, and that failure is thrown to the caller.
C27_ZeroRetriesDisablesRetry ==
    (cfg.retries = 0 /\ RetryableFailure(lastError))
    => /\ rpc = "done"
       /\ result = Throw(lastError)
       /\ fetchCount = 1
       /\ sleeps = << >>

\* C28: a 404 response ends the logical call at once with its error: no
\* transport call and no backoff sleep follows it, whatever this.retries is.
C28_NotFoundNotRetried ==
    (IsCodaApiError(lastError) /\ lastError.statusCode = 404)
    => /\ rpc = "done"
       /\ result = Throw(lastError)
       /\ fetchCount = attempt + 1
       /\ Len(sleeps) = attempt

\* C29: a logical call that has ended has returned a value or thrown a
\* CodaApiError (or a subclass of it) that carries the status of the response
\* it was made from; nothing else reaches the caller.
C29_OnlyTypedFaults ==
    rpc = "done"
    => \/ result.kind = "return"
       \/ /\ result.kind = "throw"
          /\ IsCodaApiError(result.error)
          /\ result.error.statusCode >= 400

\* -------------------------------------------------------- claims: constructor

\* the token the first of cfg.apiToken, CODA_API_TOKEN and CODA_TOKEN that
\* is there gives
TokenGiven ==
    IF ctorInput.apiToken # NoToken THEN ctorInput.apiToken
    ELSE IF ctorInput.CODA_API_TOKEN # NoToken THEN ctorInput.CODA_API_TOKEN
    ELSE ctorInput.CODA_TOKEN

Unhyphenated(token) == SelectSeq(token, LAMBDA c : c # "-")

\* more than 20 characters and, with the hyphens removed, nothing but letters,
\* digits and underscores
ShapeAsStated(token) ==
    /\ Len(token) > 20
    /\ \A i \in 1..Len(Unhyphenated(token)) : Unhyphenated(token)[i] \in {"a", "7", "_"}

\* the same, with at least one character left when the hyphens are removed
ShapeWithACharacter(token) == ShapeAsStated(token) /\ Unhyphenated(token) # << >>

Unauthorized(outcome) ==
    /\ outcome.kind = "throw"
    /\ outcome.error.type = "CodaApiError"
    /\ outcome.error.statusCode = 401

\* C30 as stated: the constructor throws a CodaApiError with status 401 when
\* no token is given and when the token given is not of more than 20
\* characters that are, hyphens removed, only letters, digits and underscores;
\* any other token constructs a client.
C30_TokenCheckedAsStated ==
    constructed.kind # "none"
    => IF TokenGiven = NoToken \/ ~ShapeAsStated(TokenGiven)
       THEN Unauthorized(constructed)
       ELSE constructed.kind = "return" /\ constructed.value.apiToken = TokenGiven

\* C30: the constructor throws a CodaApiError with status 401 when no token is
\* given and when the token given is not of more than 20 characters that are,
\* hyphens removed, at least one character and only letters, digits and
\* underscores; any other token constructs a client that holds it.
C30_TokenChecked ==
    constructed.kind # "none"
    => IF TokenGiven = NoToken \/ ~ShapeWithACharacter(TokenGiven)
       THEN Unauthorized(constructed)
       ELSE constructed.kind = "return" /\ constructed.value.apiToken = TokenGiven

\* a client was constructed from the environment's CODA_TOKEN, of 21 letters,
\* cfg.apiToken and CODA_API_TOKEN being left out
C30_Witness ==
    /\ constructed.kind = "return"
    /\ ctorInput.apiToken = NoToken
    /\ ctorInput.CODA_API_TOKEN = NoToken
    /\ Len(ctorInput.CODA_TOKEN) = 21
    /\ constructed.value.apiToken = ctorInput.CODA_TOKEN

\* ------------------------------------- claims: request engine, first success

\* a response handleResponse returns a value for
Succeeds(r) == r.kind = "response" /\ r.status = 200 /\ (r.isJson => r.parseOk)

\* C31: a rejected fetch at an attempt before the last one does not end the
\* call; a successful response at attempt j ends it: request returns that
\* response's parsed body, j + 1 transport calls having been made, with
\* j <= this.retries; and a call that has ended makes no further transport
\* call.
C31_FirstSuccessEndsCall ==
    [][/\ \A r \in SuccessResponses(PayloadBodies) \cup {Rejection}, l \in NoLatency :
            (rpc = "attempt" /\ FetchAttempt(r, l))
            => /\ (r.kind = "reject" /\ attempt < retries)
                  => (rpc' # "done" /\ result' = result)
               /\ Succeeds(r)
                  => /\ rpc' = "done"
                     /\ result'.kind = "return"
                     /\ result'.value = (IF r.isJson THEN r.body ELSE TextOf(r.body))
                     /\ fetchCount' = attempt + 1
                     /\ attempt <= retries
       /\ rpc = "done" => fetchCount' <= fetchCount]_vars

\* fetch was rejected at attempts 0 and 1 and answered at attempt 2, the last
\* one: the call returned after three transport calls
C31_Witness ==
    /\ rpc = "done"
    /\ result.kind = "return"
    /\ lastError = NetworkError
    /\ retries = 2
    /\ attempt = 2
    /\ fetchCount = 3
    /\ Len(sleeps) = 2

\* ------------------------------------------ claims: RateLimiter, the entries

\* C32: the entry a waitForSlot call records carries the time at which the
\* call resolves: the last entry of the list has the time of the last call
\* that resolved.
C32_EntryCarriesAdmissionTime ==
    (rlRequests # << >> /\ admitted # << >>)
    => /\ rlRequests[Len(rlRequests)].timestamp = admitted[Len(admitted)].at
       /\ rlRequests[Len(rlRequests)].type = admitted[Len(admitted)].type

\* C33: the entries of the list are in the order of their timestamps, so the
\* first entry of a type is the oldest of that type.
C33_ListOrderedByTime ==
    \A i, j \in DOMAIN rlRequests :
        i < j => rlRequests[i].timestamp <= rlRequests[j].timestamp

\* C34: getStats reports as totalRequests the number of entries recorded
\* since the limiter was constructed or last reset, pruned or not (0 after a
\* reset); readRequests and writeRequests are counts of entries among these,
\* and add up to recentRequests.
C34_StatsCountEveryAdmission ==
    /\ LimiterStats(now).totalRequests = recordedEntries
    /\ LimiterStats(now).readRequests <= recordedEntries
    /\ LimiterStats(now).writeRequests <= recordedEntries
    /\ LimiterStats(now).recentRequests =
           LimiterStats(now).readRequests + LimiterStats(now).writeRequests

\* the entries of the list that are of a type
EntriesOf(requests, type) == Cardinality({i \in DOMAIN requests : requests[i].type = type})

\* C35: waitForSlot only delays: a call that sleeps sleeps for more than 0 and
\* at most one window, it resolves when its timer fires, adding exactly one
\* entry, of its type, to the list; a call that does not sleep adds exactly
\* one entry of its type to the pruned list; and the calls that are asleep
\* all resolve in the end.
C35_EveryCallResolves ==
    /\ [](\A s \in BagToSet(sleepers) :
            s.wake - s.timestamp > 0 /\ s.wake - s.timestamp <= 6000)
    /\ [][/\ \A s \in BagToSet(sleepers) :
               SlotWake(s)
               => /\ Len(rlRequests') = Len(rlRequests) + 1
                  /\ rlRequests'[Len(rlRequests')].type = s.type
                  /\ SubSeq(rlRequests', 1, Len(rlRequests)) = rlRequests
                  /\ BagCardinality(sleepers') = BagCardinality(sleepers) - 1
          /\ \A type \in SlotTypes :
               (WaitForSlot(type) /\ sleepers' = sleepers)
               => /\ Len(rlRequests') = Len(Pruned(rlRequests, now)) + 1
                  /\ rlRequests'[Len(rlRequests')].type = type]_vars
    /\ (sleepers # EmptyBag) ~> (sleepers = EmptyBag)

\* the latest call slept for a whole window and has resolved: no call is
\* asleep, and the last entry of the list is of its type
C35_Witness ==
    /\ lastCall.slept
    /\ lastCall.waitTime = Window
    /\ now = lastCall.at + lastCall.waitTime
    /\ sleepers = EmptyBag
    /\ rlRequests # << >>
    /\ rlRequests[Len(rlRequests)].type = lastCall.type
    /\ rlRequests[Len(rlRequests)].timestamp = lastCall.at

\* ------------------------------------ claims: request engine, error bodies

\* the error responses whose body is announced as JSON and does not parse
UnparsableErrors == {r \in ErrorResponses : r.isJson /\ ~r.parseOk}

\* C36: an error response whose JSON body does not parse is not a success:
\* the attempt fails with a CodaApiError that carries the status of the
\* response and the generic message, not with the parse failure, and
\* request() does not return a value from it.
C36_UnparsableErrorBody ==
    [][\A r \in UnparsableErrors, l \in NoLatency :
         (rpc = "attempt" /\ FetchAttempt(r, l))
         => /\ lastError'.type = "CodaApiError"
            /\ lastError'.statusCode = r.status
            /\ lastError'.message = "Erreur HTTP"
            /\ lastError' # JsonParseError
            /\ result'.kind # "return"
            /\ rpc' = "done" => result' = Throw(lastError')]_vars

\* a call ended by throwing the CodaApiError made from a 502 response whose
\* body did not parse, after its retries
C36_Witness ==
    /\ rpc = "done"
    /\ result = Throw(CodaApiError("Erreur HTTP", 502))
    /\ lastError = result.error
    /\ fetchCount = retries + 1

\* ------------------------------------------------- claims: the body sent

\* C37: the transport call of a method that hands request() a body carries
\* that body serialized, with every item of it; so the transport call of
\* deleteRows is a DELETE whose body holds the row ids given.
C37_BodyTransmitted ==
    wireCall.body # NoRequestBody
    => /\ wire.method = wireCall.method
       /\ wire.body # NotSent
       /\ \A i \in DOMAIN wireCall.body.items :
            \E j \in DOMAIN wire.body : wire.body[j] = wireCall.body.items[i]
       /\ \E j \in DOMAIN wire.body : wire.body[j] = wireCall.body.key

\* ----------------------------------- claims: MetricsCollector, the counters

\* C38: totalRequests is successfulRequests + failedRequests + cacheHits; the
\* history holds as many durations as successfulRequests + failedRequests,
\* and 100 when they are more; and recordRateLimit adds one to rateLimitHits
\* and changes nothing else.
C38_CountersAgree ==
    /\ [](/\ metrics.totalRequests =
                metrics.successfulRequests + metrics.failedRequests + metrics.cacheHits
          /\ Len(responseTimes) =
                (IF metrics.successfulRequests + metrics.failedRequests <= 100
                 THEN metrics.successfulRequests + metrics.failedRequests ELSE 100))
    /\ [][RecordRateLimit
          => /\ metrics'.rateLimitHits = metrics.rateLimitHits + 1
             /\ [metrics' EXCEPT !.rateLimitHits = 0] = [metrics EXCEPT !.rateLimitHits = 0]
             /\ responseTimes' = responseTimes]_vars

\* 101 measured calls, one of them failed, a cache-served call and a
\* rate-limit record: the history holds 100 durations
C38_Witness ==
    /\ metrics.successfulRequests = 100
    /\ metrics.failedRequests = 1
    /\ metrics.cacheHits = 1
    /\ metrics.rateLimitHits = 1
    /\ metrics.totalRequests = 102
    /\ Len(responseTimes) = 100

\* ------------------------------------ claims: mutation poller, the deadline

\* C39: the deadline is tested before a status query starts and nowhere
\* else: a wait makes at least one status query, every query starts before
\* the deadline, no timeout is thrown while a query is in flight, and a
\* terminal status a query returns is returned by the wait however late the
\* query ends.
C39_DeadlineTestedBeforeQuery ==
    /\ wpc # "idle" => maxWaitTime > 0
    /\ wpc \in {"query", "sleep", "done"} => polls >= 1
    /\ polls >= 1 => queryStart - startTime < maxWaitTime
    /\ wpc = "query" => wresult.kind = "none"
    /\ (wpc = "done" /\ Len(seen) = polls /\ wresult.via = "own"
        /\ LastSeen.status \in {"complete", "failed"})
       => wresult = Return(LastSeen)

\* a wait returned a terminal status later than maxWaitTime after its start:
\* the query that returned it had started before the deadline
C39_Witness ==
    /\ wpc = "done"
    /\ wresult.kind = "return"
    /\ wresult.value.status = "complete"
    /\ now - startTime > maxWaitTime
    /\ queryStart - startTime < maxWaitTime
    /\ fetchCount >= 2

\* ------------------------------- claims: upsertRow, calls running at once

\* C40: the write of an upsertRow call is decided by what its lookup
\* returned and by nothing later: an update of the row found, an insert when
\* none was found. So when the lookups of two calls for the same key value
\* both found no row, both calls issue an insert for that key value.
C40_WriteFollowsLookup ==
    /\ \A p \in DOMAIN callers :
         callers[p].pc = "done"
         => callers[p].write =
              (IF callers[p].found # NoRowId
               THEN Write("update", callers[p].found, << >>, callers[p].key)
               ELSE Write("insert", NoRowId, <<"keyColumn">>, callers[p].key))
    /\ \A p, q \in DOMAIN callers :
         (/\ p # q
          /\ callers[p].pc = "done"
          /\ callers[q].pc = "done"
          /\ callers[p].key = callers[q].key
          /\ callers[p].found = NoRowId
          /\ callers[q].found = NoRowId)
         => /\ callers[p].write.op = "insert"
            /\ callers[q].write.op = "insert"
            /\ callers[p].write.key = callers[q].write.key

\* two calls for the key value a, on a table that held only b: both lookups
\* found no row, both calls inserted, and the table holds one row with a
C40_Witness ==
    /\ Len(callers) = 2
    /\ \A p \in DOMAIN callers :
         /\ callers[p].pc = "done"
         /\ callers[p].key = "a"
         /\ callers[p].found = NoRowId
         /\ callers[p].write = Write("insert", NoRowId, <<"keyColumn">>, "a")
    /\ table = <<Row(1, 1, "b"), Row(1, 2, "a")>>

====
